---- MODULE Spec2Model ----
(***************************************************************************)
(* Model of the load-test users of src/load-test/locustfile.py:            *)
(*   - ForumUser / ForumViewerUser .safe_request  (the Request Executor),  *)
(*   - the board_ids / post_ids lists of a user (the Identifier Cache) and *)
(*     the tasks that read and write them.                                 *)
(*                                                                         *)
(* Times are in milliseconds (retry_delay = 0.5 s = 500 ms) for sleeps and *)
(* in seconds for the (connect, read) timeout pair, as the source writes   *)
(* them.                                                                   *)
(*                                                                         *)
(* Further down: the Load Driver of src/tools/simulate_bottleneck.py       *)
(* (BottleneckSimulator: a driver thread, its worker pool, the stop flag   *)
(* and a clock) and the statistics of src/tools/performance_analyzer.py.   *)
(***************************************************************************)
EXTENDS Integers, Sequences, FiniteSets, TLC

VARIABLES
    cls,        \* the class of the simulated user: "ForumUser" or "ForumViewerUser"
    board_ids,  \* self.board_ids
    post_ids,   \* self.post_ids (ForumUser only; stays <<>> for a viewer)
    last,       \* what the most recent task did: its name, its safe_request calls, whether it raised
    req,        \* the input of one safe_request call under test: method, caller headers, backend script
    ures,       \* what ForumUser.safe_request did with req
    vres,       \* what ForumViewerUser.safe_request did with req
    \* BottleneckSimulator (src/tools/simulate_bottleneck.py)
    running,        \* self.running, the stop flag
    now,            \* time.time(), in clock units (Second of them make one second)
    pc,             \* where the driver thread is
    args,           \* the arguments of the simulate_* call in progress
    start_time,     \* the local start_time
    end_time,       \* the local end_time
    loop_start,     \* the local loop_start
    futures,        \* the work handed to the executor that the driver has not yet collected
    collected,      \* how many futures of the current batch the result loop has processed
    wake,           \* when the time.sleep in progress ends
    request_count,  \* the local request_count
    error_count,    \* the local error_count
    obs,            \* observations of the run so far (no program variable)
    \* PerformanceAnalyzer.run_test (src/tools/performance_analyzer.py)
    test,           \* the arguments of run_test and what the backend will do
    iteration,      \* how many iterations of the request loop are over
    response_times, \* the local response_times
    report,         \* what run_test returned
    \* alert_handler (src/monitoring/telegram-bot/bot.py)
    data,           \* the local data: the body of the POST /alert request
    alert_no,       \* which alert of the payload the for loop is at (0: not in the loop)
    messages,       \* the texts bot.send_message has sent, in order
    reply           \* what the handler answered

uservars == <<cls, board_ids, post_ids, last, req, ures, vres>>
simvars == <<running, now, pc, args, start_time, end_time, loop_start, futures, collected,
             wake, request_count, error_count, obs>>
anvars == <<test, iteration, response_times, report>>
botvars == <<data, alert_no, messages, reply>>
vars == <<cls, board_ids, post_ids, last, req, ures, vres,
          running, now, pc, args, start_time, end_time, loop_start, futures, collected,
          wake, request_count, error_count, obs,
          test, iteration, response_times, report,
          data, alert_no, messages, reply>>

(***************************************************************************)
(* Bounds of the model.                                                    *)
(***************************************************************************)
\* The entity ids the backend hands out.  Ids are opaque to the program (it
\* stores them and formats them into URLs), so two distinct ones are enough
\* to tell every order and every eviction apart.
Ids == {1, 2}

(***************************************************************************)
(* Constants of the program.                                               *)
(***************************************************************************)
\* ForumUser.safe_request, lines 96-97 (retry_delay 0.5 s, in ms).
max_retries == 3
retry_delay == 500
\* ForumViewerUser.safe_request, lines 488-489.
viewer_max_retries == 3
viewer_retry_delay == 500
\* ForumUser class attributes, lines 75-76 (seconds).
connection_timeout == 10
network_timeout == 30
\* ForumViewerUser class attributes, lines 476-477 (seconds).
viewer_connection_timeout == 10
viewer_network_timeout == 30

(***************************************************************************)
(* The HTTP client as safe_request sees it: one attempt either returns a   *)
(* response (any status) or raises an exception of the requests family.    *)
(***************************************************************************)
None == [kind |-> "none"]
Response(s) == [kind |-> "response", status |-> s]
Raise(e) == [kind |-> "raise", exc |-> e]

Statuses == {200, 201, 500}
\* requests.exceptions: ConnectionError and Timeout are subclasses of RequestException.
TransportErrors == {"ConnectionError", "Timeout", "RequestException"}
AttemptResults == {Response(s) : s \in Statuses} \cup {Raise(e) : e \in TransportErrors}

\* An except clause that names only the two specific errors.
CaughtByExcept_narrow == {"ConnectionError", "Timeout"}

\* The except clause of both safe_request variants (lines 124 and 504).
CaughtByExcept == {"ConnectionError", "Timeout", "RequestException"}

\* What the backend does on attempt 1, 2, ... of one call.
Scripts == [1..max_retries -> AttemptResults]

\* method.upper() dispatch of lines 115-120 / 493-498.
Upper(m) ==
    CASE m = "get" -> "GET"
      [] m = "post" -> "POST"
      [] OTHER -> m

ClientFn(method) ==
    IF Upper(method) = "GET" THEN "client.get"
    ELSE IF Upper(method) = "POST" THEN "client.post"
    ELSE "client.request"

\* dict.update: keys of b are added to a, a key present in both takes b's value.
DictUpdate(a, b) ==
    [k \in (DOMAIN a) \cup (DOMAIN b) |-> IF k \in DOMAIN b THEN b[k] ELSE a[k]]

\* self.trace_headers, set in on_start (lines 87-92).
trace_headers ==
    [k \in {"User-Agent", "X-Load-Test", "Content-Type", "Accept"} |->
        CASE k = "User-Agent" -> "Locust-Load-Test/1.0"
          [] k = "X-Load-Test" -> "true"
          [] k = "Content-Type" -> "application/json"
          [] k = "Accept" -> "application/json"]

\* propagate.inject(headers): adds the W3C traceparent header when a span is current.
Inject(headers, span_active) ==
    IF span_active
    THEN DictUpdate(headers, [k \in {"traceparent"} |-> "00-trace-span-01"])
    ELSE headers

SendEvent(fn, timeout, headers) ==
    [ev |-> "send", fn |-> fn, timeout |-> timeout, headers |-> headers]
SleepEvent(ms) == [ev |-> "sleep", ms |-> ms]

Returned(response, events) == [response |-> response, events |-> events, raised |-> FALSE]
Propagated(events) == [response |-> None, events |-> events, raised |-> TRUE]

(***************************************************************************)
(* ForumUser.safe_request, lines 94-131.                                   *)
(***************************************************************************)
\* A backoff that does not grow with the attempt number.
ForumUser_backoff_fixed(attempt) == retry_delay

\* line 129: retry_delay * (attempt + 1), attempt counted from 0.
ForumUser_backoff(attempt) == retry_delay * (attempt + 1)

\* A handler that sleeps before it looks whether the attempt was the last.
ForumUser_on_error_sleep_first(attempt) ==
    [return |-> attempt = max_retries - 1, sleeps |-> <<SleepEvent(ForumUser_backoff(attempt))>>]

\* lines 125-129, the except handler after failed attempt `attempt`: on the
\* last attempt it returns None at once, else it sleeps and the loop goes on.
ForumUser_on_error(attempt) ==
    IF attempt = max_retries - 1
    THEN [return |-> TRUE, sleeps |-> <<>>]
    ELSE [return |-> FALSE, sleeps |-> <<SleepEvent(ForumUser_backoff(attempt))>>]

\* A loop that also retries an HTTP error status.
RECURSIVE ForumUser_attempt_loop_retry_http(_, _, _, _, _)
ForumUser_attempt_loop_retry_http(fn, headers, script, attempt, events) ==
    IF attempt >= max_retries THEN Returned(None, events)
    ELSE LET r == script[attempt + 1]
             sent == Append(events, SendEvent(fn, <<connection_timeout, network_timeout>>, headers))
         IN  IF r.kind = "response" /\ (r.status < 400 \/ attempt = max_retries - 1)
                THEN Returned(r, sent)
             ELSE IF r.kind = "raise" /\ r.exc \notin CaughtByExcept THEN Propagated(sent)
             ELSE IF ForumUser_on_error(attempt).return
                  THEN Returned(None, sent \o ForumUser_on_error(attempt).sleeps)
             ELSE ForumUser_attempt_loop_retry_http(fn, headers, script, attempt + 1,
                        sent \o ForumUser_on_error(attempt).sleeps)

\* lines 113-131: for attempt in range(max_retries): try ... except ...
RECURSIVE ForumUser_attempt_loop(_, _, _, _, _)
ForumUser_attempt_loop(fn, headers, script, attempt, events) ==
    IF attempt >= max_retries THEN Returned(None, events)
    ELSE LET r == script[attempt + 1]
             sent == Append(events, SendEvent(fn, <<connection_timeout, network_timeout>>, headers))
         IN  IF r.kind = "response" THEN Returned(r, sent)
             ELSE IF r.exc \notin CaughtByExcept THEN Propagated(sent)
             ELSE IF ForumUser_on_error(attempt).return
                  THEN Returned(None, sent \o ForumUser_on_error(attempt).sleeps)
             ELSE ForumUser_attempt_loop(fn, headers, script, attempt + 1,
                        sent \o ForumUser_on_error(attempt).sleeps)

\* lines 99-111 then the loop: the headers are merged once, before the first attempt.
ForumUser_safe_request(method, caller_headers, span_active, script) ==
    LET headers == Inject(DictUpdate(caller_headers, trace_headers), span_active)
    IN  ForumUser_attempt_loop(ClientFn(method), headers, script, 0, <<>>)

(***************************************************************************)
(* ForumViewerUser.safe_request, lines 486-511.                            *)
(***************************************************************************)
\* A viewer that passes only the read timeout it set on the session.
ViewerTimeout_short == <<viewer_network_timeout, viewer_network_timeout>>

\* lines 494-498: timeout=(self.connection_timeout, self.network_timeout)
ViewerTimeout == <<viewer_connection_timeout, viewer_network_timeout>>

RECURSIVE ForumViewerUser_attempt_loop(_, _, _, _, _)
ForumViewerUser_attempt_loop(fn, headers, script, attempt, events) ==
    IF attempt >= viewer_max_retries THEN Returned(None, events)
    ELSE LET r == script[attempt + 1]
             sent == Append(events, SendEvent(fn, ViewerTimeout, headers))
         IN  IF r.kind = "response"
                THEN \* lines 501-502: a response that is not None is returned
                     IF r # None THEN Returned(r, sent)
                     ELSE ForumViewerUser_attempt_loop(fn, headers, script, attempt + 1, sent)
             ELSE IF r.exc \notin CaughtByExcept THEN Propagated(sent)
             ELSE IF attempt = viewer_max_retries - 1 THEN Returned(None, sent)
             ELSE ForumViewerUser_attempt_loop(fn, headers, script, attempt + 1,
                        Append(sent, SleepEvent(viewer_retry_delay * (attempt + 1))))

\* The viewer passes the caller's kwargs through unchanged.
ForumViewerUser_safe_request(method, caller_headers, script) ==
    ForumViewerUser_attempt_loop(ClientFn(method), caller_headers, script, 0, <<>>)

(***************************************************************************)
(* Reading a safe_request result.                                          *)
(***************************************************************************)
RECURSIVE SelectEv(_, _)
SelectEv(events, ev) ==
    IF events = <<>> THEN <<>>
    ELSE IF Head(events).ev = ev THEN <<Head(events)>> \o SelectEv(Tail(events), ev)
    ELSE SelectEv(Tail(events), ev)

Attempts(res) == Len(SelectEv(res.events, "send"))
Sleeps(res) == [i \in 1..Len(SelectEv(res.events, "sleep")) |-> SelectEv(res.events, "sleep")[i].ms]
Timeouts(res) == {SelectEv(res.events, "send")[i].timeout : i \in 1..Attempts(res)}
SentHeaders(res) == {SelectEv(res.events, "send")[i].headers : i \in 1..Attempts(res)}

RECURSIVE SumSeq(_)
SumSeq(s) == IF s = <<>> THEN 0 ELSE Head(s) + SumSeq(Tail(s))

(***************************************************************************)
(* JSON bodies as response.json() returns them.                            *)
(***************************************************************************)
NotJson == [t |-> "notjson"]          \* response.json() raises ValueError
JNum == [t |-> "number"]
JArr(items) == [t |-> "array", items |-> items]
JObj(fields) == [t |-> "object", f |-> fields]

IdObj(i) == JObj([id |-> i])
NoIdObj == JObj([name |-> "n"])

\* A listing names each entity once: the sequences over Ids without repetition.
Listings ==
    {l \in UNION {[1..n -> Ids] : n \in 0..Cardinality(Ids)} :
        \A i, j \in DOMAIN l : i # j => l[i] # l[j]}

\* The entries of a list body: objects with an id, and lists that also hold
\* an object without "id" or an entry that is no object at all.
EntryLists ==
    {[k \in DOMAIN l |-> IdObj(l[k])] : l \in Listings}
    \cup {<<e>> : e \in {NoIdObj, JNum}}
    \cup {<<IdObj(i), e>> : i \in Ids, e \in {NoIdObj, JNum}}
    \cup {<<NoIdObj, IdObj(i)>> : i \in Ids}

\* The paginated envelope {data, has_more, next_page_state}.
Envelopes ==
    {JObj([data |-> d, has_more |-> "false"]) : d \in {JArr(l) : l \in EntryLists} \cup {JNum}}
    \cup {JObj([data |-> d, has_more |-> "true", next_page_state |-> "s"]) :
              d \in {JArr(l) : l \in EntryLists}}
    \cup {JObj([data |-> JArr(<<>>), has_more |-> "true"])}

ListBodies == {NotJson, JNum, NoIdObj} \cup {JArr(l) : l \in EntryLists} \cup Envelopes
CreateBodies == {NotJson, JNum, JArr(<<>>), NoIdObj} \cup {IdObj(i) : i \in Ids}
\* The entries of a comment list are never read.
CommentBodies ==
    {NotJson, JNum, JArr(<<>>), JObj([data |-> JArr(<<>>), has_more |-> "false"]),
     JObj([data |-> JArr(<<>>), has_more |-> "true", next_page_state |-> "s"]),
     JObj([data |-> JArr(<<>>), has_more |-> "true"])}

\* dict.get(key) followed by a truth test; JSON scalars are written as strings.
Truthy(fields, key) ==
    /\ key \in DOMAIN fields
    /\ fields[key] \notin {"false", "null", ""}

\* [x["id"] for x in v if "id" in x]: iterating a number, or testing
\* "id" in <number>, raises TypeError; nothing is assigned then.
RECURSIVE Comprehension(_)
Comprehension(items) ==
    IF items = <<>> THEN [exc |-> "none", ids |-> <<>>]
    ELSE IF Head(items).t # "object" THEN [exc |-> "TypeError", ids |-> <<>>]
    ELSE LET rest == Comprehension(Tail(items))
         IN  IF rest.exc # "none" THEN rest
             ELSE IF "id" \in DOMAIN Head(items).f
                  THEN [exc |-> "none", ids |-> <<Head(items).f.id>> \o rest.ids]
                  ELSE rest

\* A comprehension over reversed(v): the last entry's id comes first.
IdsOf_reversed(v) ==
    IF v.t = "array"
    THEN LET c == Comprehension(v.items)
         IN  [exc |-> c.exc, ids |-> [k \in 1..Len(c.ids) |-> c.ids[Len(c.ids) + 1 - k]]]
    ELSE [exc |-> "TypeError", ids |-> <<>>]

IdsOf(v) ==
    IF v.t = "array" THEN Comprehension(v.items) ELSE [exc |-> "TypeError", ids |-> <<>>]

(***************************************************************************)
(* One safe_request call as a task sees it: what safe_request returned     *)
(* (or that it raised) and the body the response carries.                  *)
(***************************************************************************)
Exchange(res, body) == [response |-> res.response, raised |-> res.raised, body |-> body]

\* Every result ForumUser.safe_request can give, over all backend scripts.
UserResults(method) == {ForumUser_safe_request(method, <<>>, TRUE, s) : s \in Scripts}
ViewerResults(method) == {ForumViewerUser_safe_request(method, <<>>, s) : s \in Scripts}

\* The exchanges of one request: no response has no body; an answer with the
\* status `ok` carries any of `bodies`; an answer with another status carries
\* an error page or the well-formed body `good`.
Exchanges(results, ok, bodies, good) ==
    {Exchange(r, NotJson) : r \in {q \in results : q.response = None}}
    \cup {Exchange(r, b) : r \in {q \in results : q.response # None /\ q.response.status # ok},
                           b \in {NotJson, good}}
    \cup {Exchange(r, b) : r \in {q \in results : q.response # None /\ q.response.status = ok},
                           b \in bodies}

GoodList == JObj([data |-> JArr(<<IdObj(1)>>), has_more |-> "false"])
UserListExchanges == Exchanges(UserResults("GET"), 200, ListBodies, GoodList)
UserCreateExchanges == Exchanges(UserResults("POST"), 201, CreateBodies, IdObj(1))
\* The answers to the get_boards refresh a dependent task starts with.
RefreshBodies ==
    {NotJson, JArr(<<JNum>>)}
    \cup {JObj([data |-> JArr([k \in DOMAIN l |-> IdObj(l[k])]), has_more |-> "false"]) : l \in Listings}
UserRefreshExchanges == Exchanges(UserResults("GET"), 200, RefreshBodies, GoodList)
ViewerRefreshExchanges == Exchanges(ViewerResults("GET"), 200, RefreshBodies, GoodList)
UserCommentExchanges == Exchanges(UserResults("GET"), 200, CommentBodies, GoodList)
UserGetExchanges == {Exchange(r, NotJson) : r \in UserResults("GET")}
UserPostExchanges == {Exchange(r, NotJson) : r \in UserResults("POST")}
ViewerListExchanges == Exchanges(ViewerResults("GET"), 200, ListBodies, GoodList)
ViewerGetExchanges == {Exchange(r, NotJson) : r \in ViewerResults("GET")}

\* A call a task did not make.
NoExchange == [response |-> None, raised |-> FALSE, body |-> NotJson]

StatusOf(x) == IF x.response = None THEN 0 ELSE x.response.status
\* One safe_request call of a task: the request, the status it got (0: no
\* response) and the body the response carried.
Call(method, url, id, x) ==
    [method |-> method, url |-> url, id |-> id, status |-> StatusOf(x), body |-> x.body]

\* except (ValueError, KeyError): anything else leaves the task.
Uncaught(exc) == exc \notin {"none", "ValueError", "KeyError"}

\* What a task did: the lists after it, its safe_request calls in order, whether
\* an exception left it, and, for a create, the id it appended (0: none) and
\* how many ids the trim then dropped.
Result(b, p, calls, raised) ==
    [board_ids |-> b, post_ids |-> p, calls |-> calls, raised |-> raised,
     appended |-> 0, evicted |-> 0]
Created(b, p, calls, r) ==
    [board_ids |-> b, post_ids |-> p, calls |-> calls, raised |-> Uncaught(r.exc),
     appended |-> r.appended, evicted |-> r.evicted]

LastN(s, n) == SubSeq(s, Len(s) - n + 1, Len(s))

(***************************************************************************)
(* The program constant max_stored_ids (100 at lines 84 and 484) is scaled *)
(* down so that lists longer than it are reachable; every formula below is *)
(* stated in terms of max_stored_ids, not of its value.                    *)
(***************************************************************************)
max_stored_ids == 2
\* A user is followed while its two lists together hold at most this many ids.
MaxStored == max_stored_ids + 1

(***************************************************************************)
(* ForumUser tasks.  Each operator is the whole method: it takes the lists *)
(* before the task and the exchanges of the safe_request calls it makes,   *)
(* and gives the lists after it, the calls it made and whether it raised.  *)
(***************************************************************************)
\* A trim that keeps the oldest entries: ids[:max_stored_ids].
Trim_keep_oldest(ids) ==
    IF Len(ids) > max_stored_ids THEN SubSeq(ids, 1, max_stored_ids) ELSE ids

\* lines 237-238 / 338-339: trim to the most recent max_stored_ids entries.
Trim(ids) ==
    IF Len(ids) > max_stored_ids THEN LastN(ids, max_stored_ids) ELSE ids

\* lines 148-163 (and 516-527): the body of a 200 answer replaces board_ids.
ParseBoards(b, result) ==
    IF result.t = "notjson" THEN [exc |-> "ValueError", ids |-> b]
    ELSE IF result.t = "object" /\ "data" \in DOMAIN result.f
         THEN LET c == IdsOf(result.f.data)
              IN  IF c.exc = "none" THEN c ELSE [exc |-> c.exc, ids |-> b]
    ELSE IF result.t = "array"
         THEN LET c == IdsOf(result)
              IN  IF c.exc = "none" THEN c ELSE [exc |-> c.exc, ids |-> b]
    ELSE [exc |-> "none", ids |-> b]

\* lines 133-169
ForumUser_get_boards(b, p, x) ==
    LET calls == <<Call("GET", "/boards", 0, x)>>
    IN  IF x.raised THEN Result(b, p, calls, TRUE)
        ELSE IF x.response # None /\ x.response.status = 200
             THEN LET r == ParseBoards(b, x.body)
                  IN  Result(r.ids, p, calls, Uncaught(r.exc))
        ELSE Result(b, p, calls, FALSE)

\* An assignment in place of extend: the page replaces the list.
ParseExtend_replace(ids, result) ==
    IF result.t = "notjson" THEN [exc |-> "ValueError", ids |-> ids, more |-> FALSE]
    ELSE IF result.t = "object" /\ "data" \in DOMAIN result.f
         THEN LET c == IdsOf(result.f.data)
              IN  IF c.exc = "none"
                  THEN [exc |-> "none", ids |-> c.ids,
                        more |-> Truthy(result.f, "has_more") /\ Truthy(result.f, "next_page_state")]
                  ELSE [exc |-> c.exc, ids |-> ids, more |-> FALSE]
    ELSE [exc |-> "none", ids |-> ids, more |-> FALSE]

\* lines 187-201 / 291-304: the ids of an envelope's data are appended to `ids`.
ParseExtend(ids, result) ==
    IF result.t = "notjson" THEN [exc |-> "ValueError", ids |-> ids, more |-> FALSE]
    ELSE IF result.t = "object" /\ "data" \in DOMAIN result.f
         THEN LET c == IdsOf(result.f.data)
              IN  IF c.exc = "none"
                  THEN [exc |-> "none", ids |-> ids \o c.ids,
                        more |-> Truthy(result.f, "has_more") /\ Truthy(result.f, "next_page_state")]
                  ELSE [exc |-> c.exc, ids |-> ids, more |-> FALSE]
    ELSE [exc |-> "none", ids |-> ids, more |-> FALSE]

\* lines 171-207; xn is the exchange of the next-page request, when it is made.
ForumUser_get_boards_with_pagination(b, p, x, xn) ==
    LET first == <<Call("GET", "/boards?page_size=5", 0, x)>>
    IN  IF x.raised THEN Result(b, p, first, TRUE)
        ELSE IF x.response # None /\ x.response.status = 200
             THEN LET r == ParseExtend(b, x.body)
                  IN  IF r.more
                      THEN Result(r.ids, p,
                                  Append(first, Call("GET", "/boards?page_size=5&page_state=", 0, xn)),
                                  xn.raised)
                      ELSE Result(r.ids, p, first, Uncaught(r.exc))
        ELSE Result(b, p, first, FALSE)

\* lines 231-242 / 332-343: the id of a 201 answer is appended, then the list is trimmed.
ParseCreate(ids, new) ==
    IF new.t = "notjson" THEN [exc |-> "ValueError", ids |-> ids, appended |-> 0, evicted |-> 0]
    ELSE IF new.t = "number" THEN [exc |-> "TypeError", ids |-> ids, appended |-> 0, evicted |-> 0]
    ELSE IF new.t = "object" /\ "id" \in DOMAIN new.f
         THEN [exc |-> "none", ids |-> Trim(Append(ids, new.f.id)), appended |-> new.f.id,
               evicted |-> Len(ids) + 1 - Len(Trim(Append(ids, new.f.id)))]
    ELSE [exc |-> "none", ids |-> ids, appended |-> 0, evicted |-> 0]

\* A create_board that reads the body of any answer, whatever its status.
ForumUser_create_board_any_status(b, p, x) ==
    LET calls == <<Call("POST", "/boards", 0, x)>>
    IN  IF x.raised THEN Result(b, p, calls, TRUE)
        ELSE IF x.response # None
             THEN LET r == ParseCreate(b, x.body)
                  IN  Created(r.ids, p, calls, r)
        ELSE Result(b, p, calls, FALSE)

\* lines 209-248
ForumUser_create_board(b, p, x) ==
    LET calls == <<Call("POST", "/boards", 0, x)>>
    IN  IF x.raised THEN Result(b, p, calls, TRUE)
        ELSE IF x.response # None /\ x.response.status = 201
             THEN LET r == ParseCreate(b, x.body)
                  IN  Created(r.ids, p, calls, r)
        ELSE Result(b, p, calls, FALSE)

\* A sample of the newest id: ids[-1].
Sample_last(ids) == ids[Len(ids)]

\* line 257 (and 282, 313, 356, 378, 405, 428, 541, 552): the id a dependent
\* request is built with is element 0 of the list.
Sample(ids) == ids[1]

\* lines 252-257 (and 277-282, 308-313): refresh an empty board list, then
\* take its first element; `go` tells whether the task goes on to its request.
Refresh(b, p, xr) ==
    IF b # <<>> THEN [res |-> Result(b, p, <<>>, FALSE), go |-> TRUE]
    ELSE LET r == ForumUser_get_boards(b, p, xr)
         IN  [res |-> r, go |-> ~r.raised /\ r.board_ids # <<>>]

\* A request that writes nothing: the task only looks at the status.
Plain(pre, method, url, id, x) ==
    Result(pre.board_ids, pre.post_ids, Append(pre.calls, Call(method, url, id, x)), x.raised)

\* lines 250-272
ForumUser_get_posts_by_board(b, p, xr, x) ==
    LET pre == Refresh(b, p, xr)
    IN  IF ~pre.go THEN pre.res
        ELSE Plain(pre.res, "GET", "/boards/{board_id}/posts", Sample(pre.res.board_ids), x)

\* lines 274-304
ForumUser_get_posts_by_board_with_pagination(b, p, xr, x, xn) ==
    LET pre == Refresh(b, p, xr)
    IN  IF ~pre.go THEN pre.res
        ELSE LET board_id == Sample(pre.res.board_ids)
                 first == Append(pre.res.calls,
                                 Call("GET", "/boards/{board_id}/posts?page_size=3", board_id, x))
             IN  IF x.raised THEN Result(pre.res.board_ids, p, first, TRUE)
                 ELSE IF x.response # None /\ x.response.status = 200
                      THEN LET r == ParseExtend(p, x.body)
                           IN  IF r.more
                               THEN Result(pre.res.board_ids, r.ids,
                                           Append(first, Call("GET",
                                               "/boards/{board_id}/posts?page_size=3&page_state=",
                                               board_id, xn)),
                                           xn.raised)
                               ELSE Result(pre.res.board_ids, r.ids, first, Uncaught(r.exc))
                 ELSE Result(pre.res.board_ids, p, first, FALSE)

\* lines 306-349
ForumUser_create_post(b, p, xr, x) ==
    LET pre == Refresh(b, p, xr)
    IN  IF ~pre.go THEN pre.res
        ELSE LET board_id == Sample(pre.res.board_ids)
                 calls == Append(pre.res.calls, Call("POST", "/posts", board_id, x))
             IN  IF x.raised THEN Result(pre.res.board_ids, p, calls, TRUE)
                 ELSE IF x.response # None /\ x.response.status = 201
                      THEN LET r == ParseCreate(p, x.body)
                           IN  Created(pre.res.board_ids, r.ids, calls, r)
                 ELSE Result(pre.res.board_ids, p, calls, FALSE)

\* A task that sends its request whether or not a post is known.
OnFirstPost_unguarded(b, p, method, url, x) ==
    Plain(Result(b, p, <<>>, FALSE), method, url, IF p = <<>> THEN 0 ELSE Sample(p), x)

\* lines 351-371, 373-398, 400-420: return at once on an empty post list,
\* else one request for post_ids[0].
OnFirstPost(b, p, method, url, x) ==
    IF p = <<>> THEN Result(b, p, <<>>, FALSE)
    ELSE Plain(Result(b, p, <<>>, FALSE), method, url, Sample(p), x)

ForumUser_get_post(b, p, x) == OnFirstPost(b, p, "GET", "/posts/{post_id}", x)
ForumUser_create_comment(b, p, x) == OnFirstPost(b, p, "POST", "/comments", x)
ForumUser_get_comments(b, p, x) == OnFirstPost(b, p, "GET", "/posts/{post_id}/comments", x)

\* lines 422-447
ForumUser_get_comments_with_pagination(b, p, x, xn) ==
    IF p = <<>> THEN Result(b, p, <<>>, FALSE)
    ELSE LET first == <<Call("GET", "/posts/{post_id}/comments?page_size=5", Sample(p), x)>>
         IN  IF x.raised THEN Result(b, p, first, TRUE)
             ELSE IF x.response # None /\ x.response.status = 200
                  THEN IF /\ x.body.t = "object"
                          /\ "data" \in DOMAIN x.body.f
                          /\ Truthy(x.body.f, "has_more")
                          /\ Truthy(x.body.f, "next_page_state")
                       THEN Result(b, p,
                                   Append(first, Call("GET",
                                       "/posts/{post_id}/comments?page_size=5&page_state=", Sample(p), xn)),
                                   xn.raised)
                       ELSE Result(b, p, first, FALSE)
             ELSE Result(b, p, first, FALSE)

\* lines 449-464
ForumUser_health_check(b, p, x) == Plain(Result(b, p, <<>>, FALSE), "GET", "/health", 0, x)

(***************************************************************************)
(* ForumViewerUser tasks (lines 513-561); a viewer has no post_ids.        *)
(***************************************************************************)
\* lines 513-527
ForumViewerUser_get_boards(b, x) ==
    LET calls == <<Call("GET", "/boards", 0, x)>>
    IN  IF x.raised THEN Result(b, <<>>, calls, TRUE)
        ELSE IF x.response # None /\ x.response.status = 200
             THEN LET r == ParseBoards(b, x.body)
                  IN  Result(r.ids, <<>>, calls, Uncaught(r.exc))
        ELSE Result(b, <<>>, calls, FALSE)

\* lines 536-541 / 547-552
ViewerRefresh(b, xr) ==
    IF b # <<>> THEN [res |-> Result(b, <<>>, <<>>, FALSE), go |-> TRUE]
    ELSE LET r == ForumViewerUser_get_boards(b, xr)
         IN  [res |-> r, go |-> ~r.raised /\ r.board_ids # <<>>]

\* lines 529-532
ForumViewerUser_get_boards_paginated(b, x) ==
    Plain(Result(b, <<>>, <<>>, FALSE), "GET", "/boards?page_size=10", 0, x)

\* lines 534-542
ForumViewerUser_get_posts(b, xr, x) ==
    LET pre == ViewerRefresh(b, xr)
    IN  IF ~pre.go THEN pre.res
        ELSE Plain(pre.res, "GET", "/boards/{board_id}/posts", Sample(pre.res.board_ids), x)

\* lines 544-553
ForumViewerUser_get_posts_paginated(b, xr, x) ==
    LET pre == ViewerRefresh(b, xr)
    IN  IF ~pre.go THEN pre.res
        ELSE Plain(pre.res, "GET", "/boards/{board_id}/posts?page_size=5", Sample(pre.res.board_ids), x)

\* lines 555-557
ForumViewerUser_health_check(b, x) == Plain(Result(b, <<>>, <<>>, FALSE), "GET", "/health", 0, x)

\* lines 559-561
ForumViewerUser_metrics_check(b, x) == Plain(Result(b, <<>>, <<>>, FALSE), "GET", "/metrics", 0, x)

(***************************************************************************)
(* The state machine of one user: on_start, then tasks one after another.  *)
(* A task that raises is logged by the runner and the user goes on.        *)
(***************************************************************************)
\* BottleneckSimulator.__init__, lines 11-13: no simulation has been entered.
NoArgs == [scenario |-> "none"]
NoStop == 0 - 1
\* Nothing observed yet: units submitted, collected units that failed (status
\* >= 400 or no response), whether a tick took a second or more, when stop()
\* was first called inside a simulation, whether stop() was called before the
\* simulation was entered, and the last answer to the N+1 list request.
NoObs == [submitted |-> 0, failures |-> 0, overran |-> FALSE, stop_time |-> NoStop,
          early |-> FALSE, list |-> [answer |-> None, body |-> [t |-> "notjson"]]]
\* No simulation is running; the flag is whatever was left in it.
SimRest ==
    /\ now = 0
    /\ pc = "idle"
    /\ args = NoArgs
    /\ start_time = 0
    /\ end_time = 0
    /\ loop_start = 0
    /\ futures = <<>>
    /\ collected = 0
    /\ wake = 0
    /\ request_count = 0
    /\ error_count = 0
    /\ obs = NoObs
SimIdle ==
    /\ running = FALSE
    /\ SimRest

\* PerformanceAnalyzer: run_test has not been called.
NotReturned == [state |-> "running"]
NoTest ==
    /\ test = [method |-> "none"]
    /\ iteration = 0
    /\ response_times = <<>>
    /\ report = NotReturned

\* alert_handler has not been called.
NoData == [t |-> "none"]
NoReply == [status |-> "none", message |-> [text |-> "", n |-> 0]]
NoAlert ==
    /\ data = NoData
    /\ alert_no = 0
    /\ messages = <<>>
    /\ reply = NoReply

NotCalled == [called |-> FALSE]
Started == [task |-> "on_start", calls |-> <<>>, raised |-> FALSE, appended |-> 0, evicted |-> 0]
NoReq == [method |-> "none"]

\* on_start, lines 78-92 and 479-484: both lists start empty.
Init ==
    /\ cls \in {"ForumUser", "ForumViewerUser"}
    /\ board_ids = <<>>
    /\ post_ids = <<>>
    /\ last = Started
    /\ req = NoReq
    /\ ures = NotCalled
    /\ vres = NotCalled
    /\ SimIdle
    /\ NoTest
    /\ NoAlert

\* The task `task` ran and gave r.
Step(task, r) ==
    /\ Len(r.board_ids) + Len(r.post_ids) <= MaxStored
    /\ board_ids' = r.board_ids
    /\ post_ids' = r.post_ids
    /\ last' = [task |-> task, calls |-> r.calls, raised |-> r.raised,
                appended |-> r.appended, evicted |-> r.evicted]
    /\ UNCHANGED <<cls, req, ures, vres>>
    /\ UNCHANGED <<simvars, anvars, botvars>>

\* The exchange of the next-page request, made only when the first answer asks for it.
NextPageExchanges(x) ==
    IF /\ x.response # None
       /\ x.response.status = 200
       /\ x.body.t = "object"
       /\ Truthy(x.body.f, "has_more")
       /\ Truthy(x.body.f, "next_page_state")
    THEN UserGetExchanges
    ELSE {NoExchange}

\* The exchange of the get_boards refresh, made only on an empty board list.
RefreshExchanges(all) == IF board_ids = <<>> THEN all ELSE {NoExchange}

get_boards ==
    /\ cls = "ForumUser"
    /\ \E x \in UserListExchanges :
          Step("get_boards", ForumUser_get_boards(board_ids, post_ids, x))

get_boards_with_pagination ==
    /\ cls = "ForumUser"
    /\ \E x \in UserListExchanges : \E xn \in NextPageExchanges(x) :
          Step("get_boards_with_pagination",
               ForumUser_get_boards_with_pagination(board_ids, post_ids, x, xn))

create_board ==
    /\ cls = "ForumUser"
    /\ \E x \in UserCreateExchanges :
          Step("create_board", ForumUser_create_board(board_ids, post_ids, x))

get_posts_by_board ==
    /\ cls = "ForumUser"
    /\ \E xr \in RefreshExchanges(UserRefreshExchanges), x \in UserGetExchanges :
          Step("get_posts_by_board", ForumUser_get_posts_by_board(board_ids, post_ids, xr, x))

get_posts_by_board_with_pagination ==
    /\ cls = "ForumUser"
    /\ \E xr \in RefreshExchanges(UserRefreshExchanges), x \in UserListExchanges :
       \E xn \in NextPageExchanges(x) :
          Step("get_posts_by_board_with_pagination",
               ForumUser_get_posts_by_board_with_pagination(board_ids, post_ids, xr, x, xn))

create_post ==
    /\ cls = "ForumUser"
    /\ \E xr \in RefreshExchanges(UserRefreshExchanges), x \in UserCreateExchanges :
          Step("create_post", ForumUser_create_post(board_ids, post_ids, xr, x))

get_post ==
    /\ cls = "ForumUser"
    /\ \E x \in UserGetExchanges :
          Step("get_post", ForumUser_get_post(board_ids, post_ids, x))

create_comment ==
    /\ cls = "ForumUser"
    /\ \E x \in UserPostExchanges :
          Step("create_comment", ForumUser_create_comment(board_ids, post_ids, x))

get_comments ==
    /\ cls = "ForumUser"
    /\ \E x \in UserGetExchanges :
          Step("get_comments", ForumUser_get_comments(board_ids, post_ids, x))

get_comments_with_pagination ==
    /\ cls = "ForumUser"
    /\ \E x \in UserCommentExchanges : \E xn \in NextPageExchanges(x) :
          Step("get_comments_with_pagination",
               ForumUser_get_comments_with_pagination(board_ids, post_ids, x, xn))

health_check ==
    /\ cls = "ForumUser"
    /\ \E x \in UserGetExchanges :
          Step("health_check", ForumUser_health_check(board_ids, post_ids, x))

viewer_get_boards ==
    /\ cls = "ForumViewerUser"
    /\ \E x \in ViewerListExchanges :
          Step("viewer.get_boards", ForumViewerUser_get_boards(board_ids, x))

viewer_get_boards_paginated ==
    /\ cls = "ForumViewerUser"
    /\ \E x \in ViewerGetExchanges :
          Step("viewer.get_boards_paginated", ForumViewerUser_get_boards_paginated(board_ids, x))

viewer_get_posts ==
    /\ cls = "ForumViewerUser"
    /\ \E xr \in RefreshExchanges(ViewerRefreshExchanges), x \in ViewerGetExchanges :
          Step("viewer.get_posts", ForumViewerUser_get_posts(board_ids, xr, x))

viewer_get_posts_paginated ==
    /\ cls = "ForumViewerUser"
    /\ \E xr \in RefreshExchanges(ViewerRefreshExchanges), x \in ViewerGetExchanges :
          Step("viewer.get_posts_paginated", ForumViewerUser_get_posts_paginated(board_ids, xr, x))

viewer_health_check ==
    /\ cls = "ForumViewerUser"
    /\ \E x \in ViewerGetExchanges :
          Step("viewer.health_check", ForumViewerUser_health_check(board_ids, x))

viewer_metrics_check ==
    /\ cls = "ForumViewerUser"
    /\ \E x \in ViewerGetExchanges :
          Step("viewer.metrics_check", ForumViewerUser_metrics_check(board_ids, x))

Next ==
    \/ get_boards
    \/ get_boards_with_pagination
    \/ create_board
    \/ get_posts_by_board
    \/ get_posts_by_board_with_pagination
    \/ create_post
    \/ get_post
    \/ create_comment
    \/ get_comments
    \/ get_comments_with_pagination
    \/ health_check
    \/ viewer_get_boards
    \/ viewer_get_boards_paginated
    \/ viewer_get_posts
    \/ viewer_get_posts_paginated
    \/ viewer_health_check
    \/ viewer_metrics_check

Spec == Init /\ [][Next]_vars

(***************************************************************************)
(* One safe_request call under test: the caller's method and headers, the  *)
(* tracing state and the backend's script are drawn at the start, and each *)
(* variant of safe_request is applied to them.                             *)
(***************************************************************************)
Methods == {"GET", "POST", "get", "DELETE"}
CallerHeaders == {<<>>, [k \in {"Accept"} |-> "text/html"]}

ReqInit ==
    /\ cls = "ForumUser"
    /\ board_ids = <<>>
    /\ post_ids = <<>>
    /\ last = Started
    /\ req \in [method : Methods, headers : CallerHeaders, span : BOOLEAN, script : Scripts]
    /\ ures = NotCalled
    /\ vres = NotCalled
    /\ SimIdle
    /\ NoTest
    /\ NoAlert

UserCall ==
    /\ ures = NotCalled
    /\ ures' = ForumUser_safe_request(req.method, req.headers, req.span, req.script)
    /\ UNCHANGED <<cls, board_ids, post_ids, last, req, vres>>
    /\ UNCHANGED <<simvars, anvars, botvars>>

ViewerCall ==
    /\ vres = NotCalled
    /\ vres' = ForumViewerUser_safe_request(req.method, req.headers, req.script)
    /\ UNCHANGED <<cls, board_ids, post_ids, last, req, ures>>
    /\ UNCHANGED <<simvars, anvars, botvars>>

\* lines 142-169: get_boards, the caller, handles what safe_request gave it.
UserCaller ==
    /\ ures # NotCalled
    /\ last = Started
    /\ \E body \in {NotJson, JArr(<<IdObj(1)>>)} :
          Step("get_boards", ForumUser_get_boards(board_ids, post_ids, Exchange(ures, body)))

ReqNext == UserCall \/ ViewerCall \/ UserCaller

SpecReq == ReqInit /\ [][ReqNext]_vars

(***************************************************************************)
(* Properties of the Identifier Cache (checked under Spec).                *)
(***************************************************************************)
IsPrefix(a, b) == Len(a) <= Len(b) /\ SubSeq(b, 1, Len(a)) = a

\* `new` is `old` with one id appended and the oldest ids dropped.
EvictedInto(old, new) ==
    /\ Len(old) + 1 > max_stored_ids
    /\ \E x \in Ids : new = LastN(Append(old, x), max_stored_ids)

CallsOf(l) == {l.calls[i] : i \in DOMAIN l.calls}

\* The requests whose URL or body carries a board id, and those that carry a post id.
BoardUrls ==
    {"/boards/{board_id}/posts", "/boards/{board_id}/posts?page_size=3",
     "/boards/{board_id}/posts?page_size=3&page_state=", "/boards/{board_id}/posts?page_size=5",
     "/posts"}
PostUrls ==
    {"/posts/{post_id}", "/comments", "/posts/{post_id}/comments",
     "/posts/{post_id}/comments?page_size=5", "/posts/{post_id}/comments?page_size=5&page_state="}
Sampled(l, urls) == {c.id : c \in {d \in CallsOf(l) : d.url \in urls}}

\* The answers after which the code writes board_ids, and post_ids.
BoardWrite(c) ==
    \/ c.method = "GET" /\ c.url \in {"/boards", "/boards?page_size=5"} /\ c.status = 200
    \/ c.method = "POST" /\ c.url = "/boards" /\ c.status = 201
PostWrite(c) ==
    \/ c.method = "GET" /\ c.url = "/boards/{board_id}/posts?page_size=3" /\ c.status = 200
    \/ c.method = "POST" /\ c.url = "/posts" /\ c.status = 201

\* C1: after any sequence of cache-writing tasks, with any server responses,
\* neither board_ids nor post_ids is ever longer than max_stored_ids.
C1_CacheBounded ==
    /\ Len(board_ids) <= max_stored_ids
    /\ Len(post_ids) <= max_stored_ids

\* C2: when a successful create_board / create_post appends an id and the
\* length then exceeds max_stored_ids, the list afterwards is exactly the last
\* max_stored_ids entries of (the list before, then the new id), in that
\* order: the oldest entries are the ones dropped.
C2_EvictionOrder ==
    [][/\ (last'.task = "create_board" /\ last'.appended # 0
              /\ Len(board_ids) + 1 > max_stored_ids)
          => /\ board_ids' = LastN(Append(board_ids, last'.appended), max_stored_ids)
             /\ last'.evicted = Len(board_ids) + 1 - max_stored_ids
       /\ (last'.task = "create_post" /\ last'.appended # 0
              /\ Len(post_ids) + 1 > max_stored_ids)
          => /\ post_ids' = LastN(Append(post_ids, last'.appended), max_stored_ids)
             /\ last'.evicted = Len(post_ids) + 1 - max_stored_ids]_vars

\* A create_board on a list already over the limit dropped its two oldest ids.
C2_Witness ==
    /\ last.task = "create_board"
    /\ last.appended = 2
    /\ last.evicted = 2
    /\ board_ids = <<1, 2>>

\* C3: every dependent request carries element 0 of the list of its kind, and
\* building it leaves that list as it was; the first id recorded into an empty
\* list by a create is the one sampled next; two samples of one kind with no
\* task in between give the same id.
C3_SampleFirst ==
    [][/\ \A c \in CallsOf(last') :
             /\ c.url \in BoardUrls
                => /\ board_ids' # <<>>
                   /\ c.id = board_ids'[1]
                   /\ board_ids # <<>> => board_ids' = board_ids
             /\ c.url \in PostUrls
                => /\ post_ids # <<>>
                   /\ c.id = post_ids[1]
                   /\ post_ids' = post_ids
       /\ (last'.task = "create_board" /\ last'.appended # 0 /\ board_ids = <<>>)
          => board_ids'[1] = last'.appended
       /\ (last'.task = "create_post" /\ last'.appended # 0 /\ post_ids = <<>>)
          => post_ids'[1] = last'.appended
       /\ (Sampled(last, BoardUrls) # {} /\ Sampled(last', BoardUrls) # {})
          => Sampled(last', BoardUrls) = Sampled(last, BoardUrls)
       /\ (Sampled(last, PostUrls) # {} /\ Sampled(last', PostUrls) # {})
          => Sampled(last', PostUrls) = Sampled(last, PostUrls)]_vars

\* get_posts_by_board asked for board 2, the oldest of the two stored boards.
C3_Witness ==
    /\ last.task = "get_posts_by_board"
    /\ board_ids = <<2, 1>>
    /\ Sampled(last, BoardUrls) = {2}

\* C4 as the claim states it: both lists start empty, and an id leaves a list
\* only by eviction, in every task of both user classes.
C4_RemovedOnlyByEviction ==
    [][/\ last = Started => (board_ids = <<>> /\ post_ids = <<>>)
       /\ IsPrefix(board_ids, board_ids') \/ EvictedInto(board_ids, board_ids')
       /\ IsPrefix(post_ids, post_ids') \/ EvictedInto(post_ids, post_ids')]_vars

\* C4, amended: both lists start empty; post_ids only grows at its end or is
\* trimmed by a create_post; board_ids only grows at its end, is trimmed by a
\* create_board, or is replaced as a whole by a get_boards task that was
\* answered 200.
C4_Lifecycle ==
    [][/\ last = Started => (board_ids = <<>> /\ post_ids = <<>>)
       /\ \/ IsPrefix(board_ids, board_ids')
          \/ EvictedInto(board_ids, board_ids') /\ last'.task = "create_board"
          \/ /\ last'.task \in {"get_boards", "viewer.get_boards"}
             /\ \E c \in CallsOf(last') : c.url = "/boards" /\ c.status = 200
       /\ \/ IsPrefix(post_ids, post_ids')
          \/ EvictedInto(post_ids, post_ids') /\ last'.task = "create_post"]_vars

\* A create_post evicted the oldest post id.
C4_Witness ==
    /\ last.task = "create_post"
    /\ last.evicted = 1
    /\ Len(post_ids) = max_stored_ids

\* C5: a list changes in a task only if one of the task's requests that
\* writes that list was answered with success (200 for a list, 201 for a
\* create); with no response, or any other status, both lists stay as they were.
C5_WrittenOnlyAfterSuccess ==
    [][/\ board_ids' # board_ids => \E c \in CallsOf(last') : BoardWrite(c)
       /\ post_ids' # post_ids => \E c \in CallsOf(last') : PostWrite(c)]_vars

\* A create_board answered 500 on a user that holds a board id.
C5_Witness ==
    /\ last.task = "create_board"
    /\ \E c \in CallsOf(last) : c.status = 500
    /\ board_ids = <<1>>

(***************************************************************************)
(* Properties of safe_request (checked under SpecReq).                     *)
(***************************************************************************)
Called(res) == res # NotCalled
Raises(k) == req.script[k].kind = "raise"
AllRaise == \A k \in 1..max_retries : Raises(k)
Results == {res \in {ures, vres} : Called(res)}
EventKinds(res) == [i \in 1..Len(res.events) |-> res.events[i].ev]

\* C6: safe_request makes between 1 and max_retries attempts; every attempt
\* before the last one raised a transport error; an attempt answered with any
\* status, 4xx/5xx included, is the last one and its response is returned.
C6_RetryOnlyOnTransport ==
    \A res \in Results :
        LET n == Attempts(res)
        IN  /\ n \in 1..max_retries
            /\ \A k \in 1..(n - 1) : Raises(k)
            /\ \A k \in 1..max_retries : ~Raises(k) => n <= k
            /\ ~Raises(n) => /\ res.response = req.script[n]
                             /\ res.events[Len(res.events)].ev = "send"

\* A 500 on the first attempt was returned after one attempt.
C6_Witness ==
    /\ Called(ures)
    /\ req.script[1] = Response(500)
    /\ Attempts(ures) = 1
    /\ ures.response = Response(500)

\* C7: when every attempt raises a transport error, safe_request returns None
\* after exactly max_retries attempts and raises nothing; get_boards, its
\* caller, then logs a call with no response and ends without raising, the
\* lists untouched.
C7_Exhaustion ==
    (req # NoReq /\ AllRaise)
    => /\ \A res \in Results :
            /\ res.response = None
            /\ Attempts(res) = max_retries
            /\ ~res.raised
       /\ last.task = "get_boards"
          => /\ ~last.raised
             /\ Len(last.calls) = 1
             /\ last.calls[1].method = "GET"
             /\ last.calls[1].url = "/boards"
             /\ last.calls[1].status = 0
             /\ board_ids = <<>>
             /\ post_ids = <<>>

\* get_boards ran on a safe_request whose three attempts all raised.
C7_Witness ==
    /\ req # NoReq
    /\ AllRaise
    /\ Called(vres)
    /\ last.task = "get_boards"

\* C8: when attempts 1 and 2 raise and attempt 3 is answered, safe_request
\* returns that answer after exactly 3 attempts, and between the attempts it
\* sleeps retry_delay*1 = 0.5 s and then retry_delay*2 = 1.0 s.
C8_RecoveryAfterTwoFailures ==
    (req # NoReq /\ Raises(1) /\ Raises(2) /\ ~Raises(3))
    => \A res \in Results :
          /\ res.response = req.script[3]
          /\ Attempts(res) = 3
          /\ EventKinds(res) = <<"send", "sleep", "send", "sleep", "send">>
          /\ res.events[2].ms = retry_delay * 1
          /\ res.events[2].ms = 500
          /\ res.events[4].ms = retry_delay * 2
          /\ res.events[4].ms = 1000

\* Both variants recovered on the third attempt.
C8_Witness ==
    /\ req # NoReq
    /\ Raises(1) /\ Raises(2) /\ ~Raises(3)
    /\ Called(ures) /\ Called(vres)
    /\ ures.response = Response(200)

\* C9 as the claim states it: after every failed attempt k = 1, 2, 3 there is
\* a wait of retry_delay * k, and the waits of one call add up to at most
\* retry_delay * max_retries^2 / 2.
C9_WaitAfterEveryFailure ==
    \A res \in Results :
        /\ \A k \in 1..Attempts(res) :
              Raises(k) => /\ Len(res.events) >= 2 * k
                           /\ res.events[2 * k].ev = "sleep"
                           /\ res.events[2 * k].ms = retry_delay * k
        /\ 2 * SumSeq(Sleeps(res)) <= retry_delay * max_retries * max_retries

\* C9, amended: attempts and waits alternate; the wait after failed attempt k
\* is retry_delay * k for k < max_retries, and there is no wait after the last
\* attempt; the waits of one call add up to at most
\* retry_delay * max_retries^2 / 2.
C9_LinearBackoff ==
    \A res \in Results :
        LET n == Attempts(res)
        IN  /\ Len(res.events) = 2 * n - 1
            /\ \A k \in 1..n : res.events[2 * k - 1].ev = "send"
            /\ \A k \in 1..(n - 1) :
                  /\ res.events[2 * k].ev = "sleep"
                  /\ res.events[2 * k].ms = retry_delay * k
            /\ Len(Sleeps(res)) <= max_retries - 1
            /\ 2 * SumSeq(Sleeps(res)) <= retry_delay * max_retries * max_retries

\* Three failed attempts: two waits, 0.5 s and 1.0 s, none after the third.
C9_Witness ==
    /\ req # NoReq
    /\ AllRaise
    /\ Called(ures)
    /\ Sleeps(ures) = <<500, 1000>>

Second == 2
\* The rates and durations a run is started with.
MaxRps == 3
MaxDuration == 3
\* A run is followed when it asks for at most this many units in all.
MaxUnits == 4
\* The cap on the pool size, 50 at line 45, scaled down so that a rate above
\* it is reachable.
PoolCap == 2
\* The clock is followed up to one second past the longest deadline.
MaxTime == (MaxDuration + 1) * Second

Min(a, b) == IF a <= b THEN a ELSE b

\* A pool as large as the requested rate: max_workers=requests_per_second.
max_workers_uncapped(requests_per_second) == requests_per_second

\* line 45: max_workers=min(50, requests_per_second)
max_workers(requests_per_second) == Min(PoolCap, requests_per_second)

\* What the backend does with one request: it answers with a status, the
\* connection fails, or (by no action at all) it never answers.
Answers == {Response(200), Response(400), Raise("ConnectionError")}
LoadMethods == {"GET", "post", "PUT"}

\* lines 19 and 21: requests.get(url) / requests.post(url, json=payload);
\* no timeout argument is passed.
NoCall == [fn |-> "none", timeout |-> None]
NetworkCall(method) ==
    IF Upper(method) = "GET" THEN [fn |-> "requests.get", timeout |-> None]
    ELSE IF Upper(method) = "POST" THEN [fn |-> "requests.post", timeout |-> None]
    ELSE NoCall

\* lines 15-33: send_request gives a result dict; a RequestException gives
\* status 0; with a method that is neither GET nor POST `response` is
\* unbound at line 23 and UnboundLocalError leaves the function.
Returns(status) == [kind |-> "return", status |-> status]
Throws(exc) == [kind |-> "raise", exc |-> exc]
send_request(method, answer) ==
    IF NetworkCall(method) = NoCall THEN Throws("UnboundLocalError")
    ELSE IF answer.kind = "raise"
         THEN IF answer.exc \in TransportErrors THEN Returns(0) ELSE Throws(answer.exc)
    ELSE Returns(answer.status)

\* A unit of work handed to the executor.
Queued == [st |-> "queued", call |-> NoCall, out |-> None]
Executing == {i \in DOMAIN futures : futures[i].st = "running"}
Pending == {i \in DOMAIN futures : futures[i].st = "queued"}
FirstPending == CHOOSE i \in Pending : \A k \in Pending : i <= k

\* An error test that misses the status 400 itself.
IsError_above(result) == result["status"] > 400

\* line 62: result["status"] >= 400
IsError(result) == result["status"] >= 400

\* A deadline test that still passes at the deadline itself.
BeforeDeadline_inclusive(t, deadline) == t <= deadline

\* lines 46 and 52: time.time() < end_time
BeforeDeadline(t, deadline) == t < deadline

\* A pacing that always sleeps a whole second.
Remainder_whole(elapsed) == Second

\* line 73: 1.0 - elapsed
Remainder(elapsed) == Second - elapsed

\* An entry that leaves the flag as it finds it.
load_enter_keeps_flag ==
    /\ pc = "idle"
    /\ \E rps \in 1..MaxRps, d \in 1..MaxDuration, m \in LoadMethods :
          /\ rps * d <= MaxUnits
          /\ args' = [scenario |-> "load", requests_per_second |-> rps, duration_seconds |-> d,
                   method |-> m, max_workers |-> max_workers(rps)]
    /\ start_time' = now
    /\ end_time' = now + args'.duration_seconds * Second
    /\ request_count' = 0
    /\ error_count' = 0
    /\ pc' = "while"
    /\ UNCHANGED <<running, now, loop_start, futures, collected, wake, obs>>

\* lines 37-45: simulate_load is entered; the executor is created.
load_enter ==
    /\ pc = "idle"
    /\ \E rps \in 1..MaxRps, d \in 1..MaxDuration, m \in LoadMethods :
          /\ rps * d <= MaxUnits
          /\ args' = [scenario |-> "load", requests_per_second |-> rps, duration_seconds |-> d,
                   method |-> m, max_workers |-> max_workers(rps)]
    /\ running' = TRUE
    /\ start_time' = now
    /\ end_time' = now + args'.duration_seconds * Second
    /\ request_count' = 0
    /\ error_count' = 0
    /\ pc' = "while"
    /\ UNCHANGED <<now, loop_start, futures, collected, wake, obs>>

\* lines 46-50: the loop condition; a new tick begins or the loop is left.
load_while ==
    /\ pc = "while"
    /\ args.scenario = "load"
    /\ IF running /\ BeforeDeadline(now, end_time)
       THEN /\ loop_start' = now
            /\ futures' = <<>>
            /\ collected' = 0
            /\ pc' = "submit"
       ELSE /\ pc' = "exit"
            /\ UNCHANGED <<loop_start, futures, collected>>
    /\ UNCHANGED <<running, now, args, start_time, end_time, wake, request_count, error_count, obs>>

\* A driver that goes on to the pacing without collecting any result.
AfterSubmit_no_wait(batch) == "pace"

\* After the submission loop: the result loop, or the pacing when the batch is empty.
AfterSubmit(batch) == IF batch = <<>> THEN "pace" ELSE "collect"

\* A submission loop that does not look at the flag or at the clock.
load_check_unchecked ==
    /\ pc = "submit"
    /\ args.scenario = "load"
    /\ pc' = "submitting"
    /\ UNCHANGED <<running, now, args, start_time, end_time, loop_start, futures, collected,
                   wake, request_count, error_count, obs>>

\* lines 51-53: the test at the head of one iteration of the submission
\* loop: break, or go on to line 55.
load_check ==
    /\ pc = "submit"
    /\ args.scenario = "load"
    /\ pc' = IF ~running \/ ~BeforeDeadline(now, end_time)
             THEN AfterSubmit(futures) ELSE "submitting"
    /\ UNCHANGED <<running, now, args, start_time, end_time, loop_start, futures, collected,
                   wake, request_count, error_count, obs>>

\* line 55: one unit is handed to the executor; after the last iteration the
\* result loop begins.  stop() may have run since the test of line 52.
load_submit ==
    /\ pc = "submitting"
    /\ args.scenario = "load"
    /\ futures' = Append(futures, Queued)
    /\ obs' = [obs EXCEPT !.submitted = @ + 1]
    /\ pc' = IF Len(futures') = args.requests_per_second THEN AfterSubmit(futures') ELSE "submit"
    /\ UNCHANGED <<running, now, args, start_time, end_time, loop_start, collected, wake,
                   request_count, error_count>>

\* A result loop that counts only the units that did not fail.
load_collect_skips_errors ==
    /\ pc = "collect"
    /\ args.scenario = "load"
    /\ collected < Len(futures)
    /\ futures[collected + 1].st = "done"
    /\ LET out == futures[collected + 1].out
       IN  /\ IF out.kind = "return"
              THEN /\ request_count' = IF IsError(out) THEN request_count ELSE request_count + 1
                   /\ error_count' = IF IsError(out) THEN error_count + 1 ELSE error_count
              ELSE UNCHANGED <<request_count, error_count>>
           /\ obs' = [obs EXCEPT !.failures =
                          IF out.kind = "return" /\ (out.status >= 400 \/ out.status = 0)
                          THEN @ + 1 ELSE @]
    /\ collected' = collected + 1
    /\ pc' = IF collected' = Len(futures) THEN "pace" ELSE "collect"
    /\ UNCHANGED <<running, now, args, start_time, end_time, loop_start, futures, wake>>

\* lines 58-68: future.result() of the next future of the batch, which blocks
\* until that unit is done; an exception of the unit is caught and printed.
load_collect ==
    /\ pc = "collect"
    /\ args.scenario = "load"
    /\ collected < Len(futures)
    /\ futures[collected + 1].st = "done"
    /\ LET out == futures[collected + 1].out
       IN  /\ IF out.kind = "return"
              THEN /\ request_count' = request_count + 1
                   /\ error_count' = IF IsError(out) THEN error_count + 1 ELSE error_count
              ELSE UNCHANGED <<request_count, error_count>>
           /\ obs' = [obs EXCEPT !.failures =
                          IF out.kind = "return" /\ (out.status >= 400 \/ out.status = 0)
                          THEN @ + 1 ELSE @]
    /\ collected' = collected + 1
    /\ pc' = IF collected' = Len(futures) THEN "pace" ELSE "collect"
    /\ UNCHANGED <<running, now, args, start_time, end_time, loop_start, futures, wake>>

\* lines 71-73: the pacing: sleep for what is left of the second, if anything.
load_pace ==
    /\ pc = "pace"
    /\ args.scenario = "load"
    /\ LET elapsed == now - loop_start
       IN  IF elapsed < Second
           THEN /\ wake' = now + Remainder(elapsed)
                /\ pc' = "sleep"
                /\ UNCHANGED obs
           ELSE /\ pc' = "while"
                /\ obs' = [obs EXCEPT !.overran = TRUE]
                /\ UNCHANGED wake
    /\ UNCHANGED <<running, now, args, start_time, end_time, loop_start, futures, collected,
                   request_count, error_count>>

\* line 73: time.sleep returns.
load_wake ==
    /\ pc = "sleep"
    /\ args.scenario = "load"
    /\ now >= wake
    /\ pc' = "while"
    /\ UNCHANGED <<running, now, args, start_time, end_time, loop_start, futures, collected,
                   wake, request_count, error_count, obs>>

\* lines 45 and 75: leaving the with block waits for every unit handed to the
\* executor (shutdown(wait=True)); then the summary is printed.
load_exit ==
    /\ pc = "exit"
    /\ args.scenario = "load"
    /\ \A i \in DOMAIN futures : futures[i].st = "done"
    /\ pc' = "done"
    /\ UNCHANGED <<running, now, args, start_time, end_time, loop_start, futures, collected,
                   wake, request_count, error_count, obs>>

\* A pool thread takes the oldest queued unit; at most max_workers threads exist.
worker_start ==
    /\ Pending # {}
    /\ Cardinality(Executing) < args.max_workers
    /\ futures' = [futures EXCEPT ![FirstPending] =
                       [@ EXCEPT !.st = "running", !.call = NetworkCall(args.method)]]
    /\ UNCHANGED <<running, now, pc, args, start_time, end_time, loop_start, collected, wake,
                   request_count, error_count, obs>>

\* The backend answers a request in flight, or the connection fails.
worker_answer ==
    /\ \E i \in Executing : \E a \in Answers :
          /\ futures[i].call # NoCall
          /\ futures' = [futures EXCEPT ![i] = [@ EXCEPT !.st = "done",
                                                          !.out = send_request(args.method, a)]]
    /\ UNCHANGED <<running, now, pc, args, start_time, end_time, loop_start, collected, wake,
                   request_count, error_count, obs>>

\* A unit that makes no network call ends by itself.
worker_raise ==
    /\ \E i \in Executing :
          /\ futures[i].call = NoCall
          /\ futures' = [futures EXCEPT ![i] = [@ EXCEPT !.st = "done",
                                                          !.out = send_request(args.method, None)]]
    /\ UNCHANGED <<running, now, pc, args, start_time, end_time, loop_start, collected, wake,
                   request_count, error_count, obs>>

\* lines 211-213: stop(), called from another thread or a signal handler.
stop ==
    /\ running
    /\ running' = FALSE
    /\ obs' = IF pc = "idle" THEN [obs EXCEPT !.early = TRUE]
              ELSE IF pc # "done" /\ obs.stop_time = NoStop THEN [obs EXCEPT !.stop_time = now]
              ELSE obs
    /\ UNCHANGED <<now, pc, args, start_time, end_time, loop_start, futures, collected, wake,
                   request_count, error_count>>

\* Time passes while the driver is blocked in future.result() or in
\* time.sleep, and in the submission loop, where handing one unit to the
\* executor takes at most one clock unit.
TimePasses ==
    \/ pc = "submit" /\ now - loop_start < Len(futures)
    \/ pc = "collect" /\ futures[collected + 1].st # "done"
    \/ pc = "sleep" /\ now < wake
    \/ pc = "n1_list"
    \/ pc = "n1_sleep" /\ now < wake
    \/ pc \in {"n1_exit", "n1_raising"} /\ \E i \in DOMAIN futures : futures[i].st # "done"

\* A pool thread has a step to take that does not wait for the network.
WorkerReady ==
    \/ Pending # {} /\ Cardinality(Executing) < args.max_workers
    \/ \E i \in Executing : futures[i].call = NoCall

clock ==
    /\ TimePasses
    /\ ~WorkerReady
    /\ now < MaxTime
    /\ now' = now + 1
    /\ UNCHANGED <<running, pc, args, start_time, end_time, loop_start, futures, collected,
                   wake, request_count, error_count, obs>>

LoadInit ==
    /\ cls = "ForumUser"
    /\ board_ids = <<>>
    /\ post_ids = <<>>
    /\ last = Started
    /\ req = NoReq
    /\ ures = NotCalled
    /\ vres = NotCalled
    /\ running \in BOOLEAN
    /\ SimRest
    /\ NoTest
    /\ NoAlert

LoadDriver ==
    \/ load_enter
    \/ load_while
    \/ load_check
    \/ load_submit
    \/ load_collect
    \/ load_pace
    \/ load_wake
    \/ load_exit

LoadNext ==
    \/ LoadDriver /\ UNCHANGED <<uservars, anvars, botvars>>
    \/ worker_start /\ UNCHANGED <<uservars, anvars, botvars>>
    \/ worker_answer /\ UNCHANGED <<uservars, anvars, botvars>>
    \/ worker_raise /\ UNCHANGED <<uservars, anvars, botvars>>
    \/ stop /\ UNCHANGED <<uservars, anvars, botvars>>
    \/ clock /\ UNCHANGED <<uservars, anvars, botvars>>

SpecLoad == LoadInit /\ [][LoadNext]_vars

\* The driver and the pool threads keep running and the clock keeps going;
\* nothing makes the backend answer.
SpecLoadFair ==
    /\ SpecLoad
    /\ WF_vars(LoadDriver /\ UNCHANGED <<uservars, anvars, botvars>>)
    /\ WF_vars(worker_start /\ UNCHANGED <<uservars, anvars, botvars>>)
    /\ WF_vars(worker_raise /\ UNCHANGED <<uservars, anvars, botvars>>)
    /\ WF_vars(clock /\ UNCHANGED <<uservars, anvars, botvars>>)

(***************************************************************************)
(* simulate_n_plus_1_problem, lines 77-140: after a setup the driver, in a *)
(* loop, fetches the list of posts itself (requests.get in the driver      *)
(* thread) and hands one send_request per listed post to the pool, whose   *)
(* results it never collects.                                              *)
(***************************************************************************)
\* The pool size of the N+1 mode, 10 at line 122, scaled down.
NPlus1Workers == 2
\* line 138: time.sleep(0.5)
HalfSecond == Second \div 2

\* What the backend gives to a request of the driver itself.
ListAnswers(bodies) ==
    {[answer |-> Response(200), body |-> b] : b \in bodies}
    \cup {[answer |-> Response(500), body |-> NotJson],
          [answer |-> Raise("ConnectionError"), body |-> NotJson]}
BoardsBodies == {NotJson, JArr(<<>>), JArr(<<NoIdObj>>), GoodList, JArr(<<IdObj(1)>>)}
PostsBodies ==
    {NotJson, JArr(<<>>), JArr(<<IdObj(1)>>), JArr(<<IdObj(1), IdObj(2)>>),
     JArr(<<IdObj(2), NoIdObj>>), GoodList}

\* lines 85-101: the setup.  It gives the board id, or returns early after a
\* printed failure, or an exception leaves it: requests.get of line 91 is not
\* inside a try, nor are .json() and boards[0]["id"].
n1_setup_outcome(create_status, boards) ==
    IF create_status # 201 THEN [end |-> "returned", exc |-> "none", board_id |-> 0]
    ELSE IF boards.answer.kind = "raise"
         THEN [end |-> "raised", exc |-> boards.answer.exc, board_id |-> 0]
    ELSE IF boards.answer.status # 200 THEN [end |-> "returned", exc |-> "none", board_id |-> 0]
    ELSE IF boards.body.t = "notjson" THEN [end |-> "raised", exc |-> "ValueError", board_id |-> 0]
    ELSE IF boards.body.t = "number" THEN [end |-> "raised", exc |-> "TypeError", board_id |-> 0]
    ELSE IF boards.body.t = "object" THEN [end |-> "raised", exc |-> "KeyError", board_id |-> 0]
    ELSE IF boards.body.items = <<>> THEN [end |-> "returned", exc |-> "none", board_id |-> 0]
    ELSE IF boards.body.items[1].t # "object"
         THEN [end |-> "raised", exc |-> "TypeError", board_id |-> 0]
    ELSE IF "id" \notin DOMAIN boards.body.items[1].f
         THEN [end |-> "raised", exc |-> "KeyError", board_id |-> 0]
    ELSE [end |-> "loop", exc |-> "none", board_id |-> boards.body.items[1].f.id]

\* A loop that asks for the first listed post only.
n1_for_posts_first_only(items) ==
    IF items = <<>> THEN [ids |-> <<>>, exc |-> "none"]
    ELSE IF Head(items).t # "object" THEN [ids |-> <<>>, exc |-> "TypeError"]
    ELSE IF "id" \notin DOMAIN Head(items).f THEN [ids |-> <<>>, exc |-> "KeyError"]
    ELSE [ids |-> <<Head(items).f.id>>, exc |-> "none"]

\* lines 133-135: for post in posts: post_id = post["id"]; executor.submit(...).
\* The ids submitted before the loop ends or an exception leaves it.
RECURSIVE n1_for_posts(_)
n1_for_posts(items) ==
    IF items = <<>> THEN [ids |-> <<>>, exc |-> "none"]
    ELSE IF Head(items).t # "object" THEN [ids |-> <<>>, exc |-> "TypeError"]
    ELSE IF "id" \notin DOMAIN Head(items).f THEN [ids |-> <<>>, exc |-> "KeyError"]
    ELSE LET rest == n1_for_posts(Tail(items))
         IN  [ids |-> <<Head(items).f.id>> \o rest.ids, exc |-> rest.exc]

\* lines 127-135: what the driver does with the answer to the list request.
\* Iterating a dict gives its keys, and "data"["id"] raises TypeError.
n1_children(r) ==
    IF r.answer.kind = "raise" THEN [ids |-> <<>>, exc |-> r.answer.exc]
    ELSE IF r.answer.status # 200 THEN [ids |-> <<>>, exc |-> "none"]
    ELSE IF r.body.t = "notjson" THEN [ids |-> <<>>, exc |-> "ValueError"]
    ELSE IF r.body.t = "array" THEN n1_for_posts(r.body.items)
    ELSE [ids |-> <<>>, exc |-> "TypeError"]

\* s without its i-th element.
Without(s, i) == SubSeq(s, 1, i - 1) \o SubSeq(s, i + 1, Len(s))

QueuedFor(post_id) == [st |-> "queued", call |-> NoCall, out |-> None, id |-> post_id]

\* lines 77-122: the setup, then running = True and the executor.
n1_enter ==
    /\ pc = "idle"
    /\ \E d \in 1..MaxDuration, create_status \in {201, 500, 0}, boards \in ListAnswers(BoardsBodies) :
          LET o == n1_setup_outcome(create_status, boards)
          IN  /\ args' = [scenario |-> "n_plus_1", duration_seconds |-> d, method |-> "GET",
                          max_workers |-> NPlus1Workers, board_id |-> o.board_id, exc |-> o.exc]
              /\ IF o.end = "loop"
                 THEN /\ running' = TRUE
                      /\ start_time' = now
                      /\ end_time' = now + d * Second
                      /\ pc' = "n1_while"
                 ELSE /\ pc' = o.end
                      /\ UNCHANGED <<running, start_time, end_time>>
    /\ UNCHANGED <<now, loop_start, futures, collected, wake, request_count, error_count, obs>>

\* lines 123-127: the loop condition; the list request is sent.
n1_while ==
    /\ pc = "n1_while"
    /\ pc' = IF running /\ BeforeDeadline(now, end_time) THEN "n1_list" ELSE "n1_exit"
    /\ UNCHANGED <<running, now, args, start_time, end_time, loop_start, futures, collected,
                   wake, request_count, error_count, obs>>

\* lines 127-138: the list request returns or raises; one unit per listed
\* post is handed to the pool; then the sleep begins.  An exception leaves
\* the loop and the with block.
n1_list ==
    /\ pc = "n1_list"
    /\ \E r \in ListAnswers(PostsBodies) :
          LET c == n1_children(r)
          IN  /\ obs.submitted + Len(c.ids) <= MaxUnits
              /\ futures' = futures \o [k \in 1..Len(c.ids) |-> QueuedFor(c.ids[k])]
              /\ obs' = [obs EXCEPT !.submitted = @ + Len(c.ids), !.list = r]
              /\ IF c.exc = "none"
                 THEN /\ pc' = "n1_sleep"
                      /\ wake' = now + HalfSecond
                      /\ UNCHANGED args
                 ELSE /\ pc' = "n1_raising"
                      /\ args' = [args EXCEPT !.exc = c.exc]
                      /\ UNCHANGED wake
    /\ UNCHANGED <<running, now, start_time, end_time, loop_start, collected,
                   request_count, error_count>>

\* line 138: time.sleep(0.5) returns.
n1_wake ==
    /\ pc = "n1_sleep"
    /\ now >= wake
    /\ pc' = "n1_while"
    /\ UNCHANGED <<running, now, args, start_time, end_time, loop_start, futures, collected,
                   wake, request_count, error_count, obs>>

\* lines 122 and 140: leaving the with block waits for every unit handed to
\* the pool; after the loop the method returns, after an exception the
\* exception goes on to the caller.
n1_exit ==
    /\ pc \in {"n1_exit", "n1_raising"}
    /\ \A i \in DOMAIN futures : futures[i].st = "done"
    /\ pc' = IF pc = "n1_exit" THEN "done" ELSE "raised"
    /\ UNCHANGED <<running, now, args, start_time, end_time, loop_start, futures, collected,
                   wake, request_count, error_count, obs>>

\* line 135: the future that executor.submit returns is dropped, so a unit
\* that ends, whatever send_request returned, is gone; `futures` holds the
\* units the pool has not finished.
n1_unit_done ==
    /\ args.scenario = "n_plus_1"
    /\ \E i \in Executing : \E a \in Answers :
          /\ send_request(args.method, a).kind = "return"
          /\ futures' = Without(futures, i)
    /\ UNCHANGED <<running, now, pc, args, start_time, end_time, loop_start, collected, wake,
                   request_count, error_count, obs>>

NPlus1Driver ==
    \/ n1_enter
    \/ n1_while
    \/ n1_list
    \/ n1_wake
    \/ n1_exit

NPlus1Next ==
    \/ NPlus1Driver /\ UNCHANGED <<uservars, anvars, botvars>>
    \/ worker_start /\ UNCHANGED <<uservars, anvars, botvars>>
    \/ n1_unit_done /\ UNCHANGED <<uservars, anvars, botvars>>
    \/ stop /\ UNCHANGED <<uservars, anvars, botvars>>
    \/ clock /\ UNCHANGED <<uservars, anvars, botvars>>

SpecNPlus1 == LoadInit /\ [][NPlus1Next]_vars

(***************************************************************************)
(* Properties of the Load Driver (checked under SpecLoad).                 *)
(***************************************************************************)
InRun == pc \notin {"idle", "done"}

\* C11: while simulate_load runs with requests_per_second >= 1, the number of
\* requests executing concurrently in the pool is at most
\* min(50, requests_per_second) (50 is PoolCap here), whatever the rate and
\* however slow the backend.
C11_ConcurrencyCap ==
    pc # "idle" =>
        Cardinality(Executing) <= Min(PoolCap, args.requests_per_second)

\* The cap binds: the rate is above it, the pool is full and a unit waits.
C11_Witness ==
    /\ pc = "collect"
    /\ args.requests_per_second > PoolCap
    /\ Cardinality(Executing) = PoolCap
    /\ Pending # {}

\* The units a run asks for: requests_per_second * duration_seconds.
Requested == args.requests_per_second * args.duration_seconds
Finished == pc = "done"
NotCancelled == obs.stop_time = NoStop

C13_Terminates == (pc # "idle") ~> Finished

\* C14: once stop() has cleared the flag during a run, the driver ends the
\* run within one tick's duration (one second).
C14_StopEndsRunWithinOneTick ==
    (obs.stop_time # NoStop /\ ~Finished) => now - obs.stop_time <= Second

\* C15: every network call issued by a worker of the Load Driver carries an
\* explicit timeout.
C15_EveryCallHasTimeout ==
    \A i \in DOMAIN futures :
        futures[i].call # NoCall => futures[i].call.timeout # None

\* C16: when a simulate_load run has ended, error_count is the number of
\* collected units whose outcome was a status >= 400 or a transport failure,
\* and request_count is the number of collected units.
C16_ErrorCount ==
    Finished =>
        /\ error_count = obs.failures
        /\ request_count = obs.submitted

(***************************************************************************)
(* Properties of the N+1 mode (checked under SpecNPlus1).                  *)
(***************************************************************************)
\* C17: no transport error, HTTP error status, malformed body or exception
\* inside one unit of work or one iteration propagates out of the driver.
C17_NoFailureLeavesTheDriver == pc # "raised"

(***************************************************************************)
(* PerformanceAnalyzer.run_test, src/tools/performance_analyzer.py lines   *)
(* 21-84: `iterations` requests one after another, the elapsed time of     *)
(* each that got a response is appended to response_times, then the        *)
(* statistics are computed.  Times are whole milliseconds.                 *)
(***************************************************************************)
\* The largest `iterations` a test is started with (the default is 10).
MaxIterations == 20

\* The elapsed time of request number k (from 1) of a test: the values
\* 10, 20, ..., rotated by test.shift so that they arrive unsorted, and
\* repeated in pairs when test.spread is 2.
Elapsed(t, k) == 10 * ((((k - 1 + t.shift) % t.iterations) \div t.spread) + 1)

Tests ==
    {t \in [method : {"GET", "post", "PUT"}, iterations : 1..MaxIterations,
            shift : 0..(MaxIterations - 1), spread : {1, 2}, fails : 0..MaxIterations] :
        /\ t.shift < t.iterations
        /\ t.fails <= t.iterations
        /\ t.method # "GET" => (t.shift = 0 /\ t.spread = 1 /\ t.fails = 0)}

\* sorted(xs), ascending.
RECURSIVE Insert(_, _)
Insert(x, xs) ==
    IF xs = <<>> THEN <<x>>
    ELSE IF x <= Head(xs) THEN <<x>> \o xs
    ELSE <<Head(xs)>> \o Insert(x, Tail(xs))

\* sorted(xs, reverse=True): the largest value first.
RECURSIVE sorted_descending(_)
sorted_descending(xs) ==
    IF xs = <<>> THEN <<>>
    ELSE LET m == CHOOSE k \in DOMAIN xs : \A j \in DOMAIN xs : xs[j] <= xs[k]
         IN  <<xs[m]>> \o sorted_descending(Without(xs, m))

RECURSIVE sorted(_)
sorted(xs) == IF xs = <<>> THEN <<>> ELSE Insert(Head(xs), sorted(Tail(xs)))

\* The index of the nearest-rank method: ceil(0.95 * n) - 1.
p95_index_nearest_rank(n) == ((n * 95 + 99) \div 100) - 1

\* line 67: int(len(response_times) * 0.95); the float product truncates to
\* floor(95 * n / 100) for every n up to 200000.
p95_index(n) == (n * 95) \div 100

RECURSIVE SumOf(_)
SumOf(xs) == IF xs = <<>> THEN 0 ELSE Head(xs) + SumOf(Tail(xs))

\* lines 63-82: the statistics of a non-empty sample (the average in whole
\* milliseconds); Python sequences are indexed from 0, TLA+ sequences from 1.
Statistics(times) ==
    [state |-> "returned", none |-> FALSE,
     avg_time |-> SumOf(times) \div Len(times),
     max_time |-> sorted(times)[Len(times)],
     min_time |-> sorted(times)[1],
     p95_time |-> sorted(times)[p95_index(Len(times)) + 1]]
ReturnedNone == [state |-> "returned", none |-> TRUE]

AnalyzerInit ==
    /\ cls = "ForumUser"
    /\ board_ids = <<>>
    /\ post_ids = <<>>
    /\ last = Started
    /\ req = NoReq
    /\ ures = NotCalled
    /\ vres = NotCalled
    /\ SimIdle
    /\ test \in Tests
    /\ iteration = 0
    /\ response_times = <<>>
    /\ report = NotReturned
    /\ NoAlert

\* lines 28-57: one iteration of the request loop.  A method that is neither
\* GET nor POST makes run_test return at once (lines 36-38); a
\* RequestException is printed and the loop goes on.
run_test_request ==
    /\ report = NotReturned
    /\ iteration < test.iterations
    /\ IF Upper(test.method) \notin {"GET", "POST"}
       THEN /\ report' = ReturnedNone
            /\ UNCHANGED <<iteration, response_times>>
       ELSE /\ iteration' = iteration + 1
            /\ response_times' = IF iteration' = test.fails THEN response_times
                                 ELSE Append(response_times, Elapsed(test, iteration'))
            /\ UNCHANGED report
    /\ UNCHANGED test
    /\ UNCHANGED <<uservars, simvars, botvars>>

\* lines 59-84: after the loop, the statistics of a non-empty sample.
run_test_statistics ==
    /\ report = NotReturned
    /\ iteration = test.iterations
    /\ report' = IF response_times # <<>> THEN Statistics(response_times) ELSE ReturnedNone
    /\ UNCHANGED <<test, iteration, response_times>>
    /\ UNCHANGED <<uservars, simvars, botvars>>

AnalyzerNext == run_test_request \/ run_test_statistics

SpecAnalyzer == AnalyzerInit /\ [][AnalyzerNext]_vars

(***************************************************************************)
(* Properties of run_test (checked under SpecAnalyzer).                    *)
(***************************************************************************)
HasStatistics == report.state = "returned" /\ ~report.none
SampleSize == Len(response_times)
Below(v) == Cardinality({k \in DOMAIN response_times : response_times[k] < v})
UpTo(v) == Cardinality({k \in DOMAIN response_times : response_times[k] <= v})
\* v is the element at index k (from 0) of the sample in ascending order.
IsOrderStatistic(v, k) ==
    /\ \E m \in DOMAIN response_times : response_times[m] = v
    /\ Below(v) <= k
    /\ UpTo(v) >= k + 1
TenValues == [k \in 1..10 |-> 10 * k]

\* C18: for every non-empty sample of size n the reported p95 is the element
\* at index floor(0.95 * n) of the sample in ascending order, that index is
\* within 0..n-1, and for the ten values 10, 20, ..., 100 the index is 9 and
\* the reported p95 is 100.
C18_P95IndexRule ==
    HasStatistics =>
        LET idx == (95 * SampleSize) \div 100
        IN  /\ 0 <= idx
            /\ idx < SampleSize
            /\ IsOrderStatistic(report.p95_time, idx)
            /\ response_times = TenValues => (idx = 9 /\ report.p95_time = 100)

\* The ten values 10, ..., 100 have been measured and reported on.
C18_Witness ==
    /\ HasStatistics
    /\ response_times = TenValues

\* C19 as stated: the reported p95 is the nearest-rank 95th percentile, the
\* ceil(0.95 * n)-th smallest value of the sample.
C19_P95IsNearestRank ==
    HasStatistics =>
        IsOrderStatistic(report.p95_time, ((95 * SampleSize + 99) \div 100) - 1)

\* C19: the reported p95 is the nearest-rank 95th percentile of the sample
\* when the sample size is not a multiple of 20; when it is (0.95 * n is a
\* whole number) the reported value is one rank higher, the
\* (0.95 * n + 1)-th smallest value.
C19_P95NearestRankOrNext ==
    HasStatistics =>
        IF SampleSize % 20 # 0
        THEN IsOrderStatistic(report.p95_time, ((95 * SampleSize + 99) \div 100) - 1)
        ELSE IsOrderStatistic(report.p95_time, (95 * SampleSize) \div 100)

\* Twenty distinct values have been measured: the 19th smallest is 190, the
\* reported p95 is 200.
C19_Witness ==
    /\ HasStatistics
    /\ SampleSize = 20
    /\ test.spread = 1
    /\ report.p95_time = 200

(***************************************************************************)
(* The pagination-aware fetch (checked under Spec).                        *)
(***************************************************************************)
\* The body is an envelope whose data is a list of objects.
IsEnvelope(body) ==
    /\ body.t = "object"
    /\ "data" \in DOMAIN body.f
    /\ body.f.data.t = "array"
    /\ \A k \in DOMAIN body.f.data.items : body.f.data.items[k].t = "object"
HasId(entry) == "id" \in DOMAIN entry.f
\* The ids of the entries, in the order of the response.
ListedIds(body) ==
    LET withId == SelectSeq(body.f.data.items, HasId)
    IN  [k \in 1..Len(withId) |-> withId[k].f.id]
AsksForMore(body) ==
    /\ "has_more" \in DOMAIN body.f
    /\ body.f.has_more = "true"
    /\ "next_page_state" \in DOMAIN body.f
TwoBoards == JObj([data |-> JArr(<<IdObj(1), IdObj(2)>>), has_more |-> "false"])

\* C20: when get_boards_with_pagination gets a 200 answer to
\* GET /boards?page_size=5 whose body is an envelope {data, has_more}, it
\* appends the ids of the data entries, in response order, to board_ids; from
\* an empty list and data [{id:1},{id:2}] the list becomes [1,2] and the next
\* sampled board id is 1; it issues exactly one follow-up request, for the
\* next page, when has_more is true with a next_page_state, and none
\* otherwise.
C20_PaginatedFetchRecordsIds ==
    [][(/\ last'.task = "get_boards_with_pagination"
        /\ last'.calls[1].status = 200
        /\ IsEnvelope(last'.calls[1].body))
       => LET body == last'.calls[1].body
          IN  /\ last'.calls[1].url = "/boards?page_size=5"
              /\ board_ids' = board_ids \o ListedIds(body)
              /\ (board_ids = <<>> /\ body = TwoBoards)
                    => (board_ids' = <<1, 2>> /\ Sample(board_ids') = 1)
              /\ IF AsksForMore(body)
                 THEN /\ Len(last'.calls) = 2
                      /\ last'.calls[2].url = "/boards?page_size=5&page_state="
                 ELSE Len(last'.calls) = 1]_vars

\* The fetch of the two boards into an empty list has just run.
C20_Witness ==
    /\ last.task = "get_boards_with_pagination"
    /\ last.calls[1].status = 200
    /\ last.calls[1].body = TwoBoards
    /\ board_ids = <<1, 2>>

(***************************************************************************)
(* Properties of the tick loop of simulate_load (checked under SpecLoad).  *)
(***************************************************************************)
\* The units of the current tick that are submitted and not yet collected.
Uncollected == Len(futures) - collected

\* C22: a new tick begins submitting only when every result of the previous
\* tick has been collected and its pacing sleep has ended or was skipped, so
\* the units submitted and not yet collected never exceed requests_per_second.
C22_Backpressure ==
    /\ [](args.scenario = "load" => Uncollected <= args.requests_per_second)
    /\ [][(pc = "while" /\ pc' = "submit")
              => /\ collected = Len(futures)
                 /\ \A i \in DOMAIN futures : futures[i].st = "done"]_vars
    /\ [][(pc' = "while" /\ pc # "while")
              => \/ pc = "idle"
                 \/ pc = "pace" /\ now - loop_start >= Second
                 \/ pc = "sleep" /\ now >= wake]_vars

\* The second tick of a run of two units per second begins after the pacing
\* sleep of the first.
C22_Witness ==
    /\ pc = "submit"
    /\ futures = <<>>
    /\ args.requests_per_second = 2
    /\ obs.submitted = 2
    /\ ~obs.overran

\* C23: the starts of two consecutive ticks are at least one second apart; a
\* batch that took less than a second is followed by a sleep of exactly the
\* remainder of the second, a batch that took a second or more by the next
\* tick with no delay, and that tick again submits at most
\* requests_per_second units.
C23_SelfPacing ==
    /\ [][(pc = "while" /\ pc' = "submit" /\ obs.submitted > 0)
              => now - loop_start >= Second]_vars
    /\ [][(pc = "pace" /\ pc' # "pace")
              => IF now - loop_start < Second
                 THEN pc' = "sleep" /\ wake' = loop_start + Second
                 ELSE pc' = "while" /\ now' = now]_vars
    /\ [][(pc = "sleep" /\ pc' = "while") => now = wake]_vars
    /\ [](args.scenario = "load" => Len(futures) <= args.requests_per_second)

\* After a tick that overran, the next tick took half a second and the
\* driver sleeps the other half.
C23_Witness ==
    /\ pc = "sleep"
    /\ obs.overran
    /\ now - loop_start = 1
    /\ wake = now + 1

\* The units of this run raise instead of returning a result.
UnitsRaise == NetworkCall(args.method) = NoCall

\* C24 as stated: only the result loop changes the counters, at the end of
\* the run request_count equals the number of submitted units, and
\* error_count never exceeds request_count.
C24_CountsEverySubmittedUnit ==
    /\ [][(request_count' # request_count \/ error_count' # error_count)
              => pc \in {"idle", "collect"}]_vars
    /\ [](Finished => request_count = obs.submitted)
    /\ [](error_count <= request_count)

\* What holds of C24: only the result loop changes the counters; at the end of
\* the run request_count equals the number of submitted units whose
\* send_request returned a result (a unit that raised is collected and not
\* counted), and error_count never exceeds request_count.
C24_CountsEveryReturnedUnit ==
    /\ [][(request_count' # request_count \/ error_count' # error_count)
              => pc \in {"idle", "collect"}]_vars
    /\ [](request_count <= obs.submitted)
    /\ [](Finished => request_count = IF UnitsRaise THEN 0 ELSE obs.submitted)
    /\ [](error_count <= request_count)

\* A run of three units has ended, two of them counted as errors.
C24_Witness ==
    /\ Finished
    /\ obs.submitted = 3
    /\ request_count = 3
    /\ error_count = 2

C28_StopFlagReArmed ==
    /\ [][(pc = "idle" /\ pc' \in {"while", "n1_while"}) => running']_vars
    /\ []((pc \notin {"idle", "done", "returned", "raised"} /\ ~running)
              => obs.stop_time # NoStop)
    /\ []((pc \in {"exit", "n1_exit"} /\ obs.stop_time = NoStop)
              => ~BeforeDeadline(now, end_time))

\* stop() was called before the entry, and the run submitted all its units.
C28_Witness ==
    /\ obs.early
    /\ Finished
    /\ obs.stop_time = NoStop
    /\ obs.submitted = Requested
    /\ obs.submitted = 4

(***************************************************************************)
(* More properties of the N+1 mode (checked under SpecNPlus1).             *)
(***************************************************************************)
\* The body is a list of posts, each an object with an id.
IsPostList(body) ==
    /\ body.t = "array"
    /\ \A k \in DOMAIN body.items :
          body.items[k].t = "object" /\ "id" \in DOMAIN body.items[k].f

\* The driver has the answer to its list request in hand.
ListHandled == pc = "n1_list" /\ pc' # "n1_list"

\* C21: when the list request answers 200 with k posts, exactly k per-post
\* requests are submitted, one for each listed post id in the order of the
\* list, and none other; an answer other than 200 submits nothing.  Only the
\* driver submits, one list request at a time, each sent after the sleep that
\* follows the previous one, while the per-post requests run in the pool.
C21_OneRequestPerListedPost ==
    /\ [][(ListHandled /\ obs'.list.answer = Response(200) /\ IsPostList(obs'.list.body))
              => LET items == obs'.list.body.items
                 IN  /\ pc' = "n1_sleep"
                     /\ Len(futures') = Len(futures) + Len(items)
                     /\ SubSeq(futures', 1, Len(futures)) = futures
                     /\ \A k \in DOMAIN items :
                           futures'[Len(futures) + k] = QueuedFor(items[k].f.id)
                     /\ obs'.submitted = obs.submitted + Len(items)]_vars
    /\ [][(ListHandled /\ obs'.list.answer # Response(200)) => futures' = futures]_vars
    /\ [][Len(futures') > Len(futures) => ListHandled]_vars
    /\ [][(pc' = "n1_list" /\ pc # "n1_list") => pc = "n1_while"]_vars

\* The list named posts 1 and 2, and the two requests for them are in flight
\* at the same time.
C21_Witness ==
    /\ args.scenario = "n_plus_1"
    /\ obs.list.answer = Response(200)
    /\ obs.list.body = JArr(<<IdObj(1), IdObj(2)>>)
    /\ obs.submitted = 2
    /\ Len(futures) = 2
    /\ futures[1].id = 1
    /\ futures[2].id = 2
    /\ Executing = {1, 2}

\* C29: at most the pool's number of per-post requests execute at a time,
\* and the driver submits the requests of a list only when no request of an
\* earlier list is still outstanding.
C29_BoundedBacklog ==
    /\ [](args.scenario = "n_plus_1" => Cardinality(Executing) <= NPlus1Workers)
    /\ [][Len(futures') > Len(futures) => futures = <<>>]_vars

(***************************************************************************)
(* Properties of the tasks' parsing and of the dependent tasks (checked    *)
(* under Spec).                                                            *)
(***************************************************************************)
\* A list body the tasks cannot read: no JSON, a list with an entry that is
\* no object, or an envelope whose data is no list.
MalformedList(body) ==
    \/ body.t = "notjson"
    \/ body.t = "array" /\ \E k \in DOMAIN body.items : body.items[k].t # "object"
    \/ body.t = "object" /\ "data" \in DOMAIN body.f /\ body.f.data.t # "array"

\* The call is a board listing answered 200, or a board creation answered
\* 201, with a body that cannot be read.
BadBody(c) ==
    \/ c.method = "GET" /\ c.url = "/boards" /\ c.status = 200 /\ MalformedList(c.body)
    \/ c.method = "POST" /\ c.url = "/boards" /\ c.status = 201 /\ c.body.t # "object"

\* C25: a task that gets a 200/201 answer with a malformed body catches the
\* parse error itself: no exception leaves the task, and both lists are what
\* they were before it.
C25_ParseErrorsContained ==
    /\ []((\E k \in DOMAIN last.calls : BadBody(last.calls[k])) => ~last.raised)
    /\ [][(\E k \in DOMAIN last'.calls : BadBody(last'.calls[k]))
              => (board_ids' = board_ids /\ post_ids' = post_ids)]_vars

PostTasks == {"get_post", "create_comment", "get_comments", "get_comments_with_pagination"}
BoardTasks ==
    {"get_posts_by_board", "get_posts_by_board_with_pagination", "create_post",
     "viewer.get_posts", "viewer.get_posts_paginated"}
IsRefresh(c) == c.method = "GET" /\ c.url = "/boards"

\* C26: with no post known, the tasks that need a post send no request; with
\* no board known, the tasks that need a board first refresh the list with
\* exactly one get_boards, and send their own request, for the first board
\* of the refreshed list, exactly when that list is not empty.
C26_DependentTasksOnEmptyLists ==
    /\ [][(last'.task \in PostTasks /\ post_ids = <<>>)
              => (last'.calls = <<>> /\ ~last'.raised)]_vars
    /\ [][(last'.task \in BoardTasks /\ board_ids = <<>>)
              => LET calls == last'.calls
                 IN  /\ Len(calls) >= 1
                     /\ IsRefresh(calls[1])
                     /\ \A k \in DOMAIN calls : k > 1 => ~IsRefresh(calls[k])
                     /\ (Len(calls) >= 2) <=> (board_ids' # <<>>)
                     /\ Len(calls) >= 2 => calls[2].id = board_ids'[1]]_vars
    /\ [][(last'.task \in BoardTasks /\ board_ids # <<>>)
              => (last'.calls # <<>> /\ ~IsRefresh(last'.calls[1]))]_vars

\* get_posts_by_board refreshed an empty board list and then asked for the
\* posts of the board it found.
C26_Witness ==
    /\ last.task = "get_posts_by_board"
    /\ Len(last.calls) = 2
    /\ IsRefresh(last.calls[1])
    /\ last.calls[1].status = 200
    /\ last.calls[2].url = "/boards/{board_id}/posts"
    /\ board_ids # <<>>
    /\ last.calls[2].id = board_ids[1]

(***************************************************************************)
(* alert_handler, src/monitoring/telegram-bot/bot.py lines 33-74: one POST *)
(* /alert request.  The handler reads the payload and sends one Telegram   *)
(* message per alert; each await of bot.send_message is one step, and the  *)
(* messaging API either takes the message or the call raises.              *)
(***************************************************************************)
\* The longest list of alerts a payload carries.
MaxAlerts == 3

JNull == [t |-> "null"]
FiringAlert ==
    JObj([status |-> "firing", labels |-> JObj([alertname |-> "HighErrorRate"]),
          annotations |-> JObj([summary |-> "s", description |-> "d"])])
ResolvedAlert ==
    JObj([status |-> "resolved", labels |-> JObj([alertname |-> "HighErrorRate"]),
          annotations |-> JObj([summary |-> "s"])])
\* An alert with none of the fields the handler reads, and an entry that is
\* no object.
BareAlert == JObj([fingerprint |-> "x"])
AlertKinds == {FiringAlert, ResolvedAlert, BareAlert, JNum}
AlertLists == UNION {[1..n -> AlertKinds] : n \in 0..MaxAlerts}
\* The bodies of a POST /alert: no JSON, a list, objects without alerts or
\* whose alerts is null or an object, and objects with a list of alerts.
Payloads ==
    {NotJson, JArr(<<>>), JObj([receiver |-> "r"]), JObj([alerts |-> JNull]),
     JObj([alerts |-> NoIdObj])}
    \cup {JObj([alerts |-> JArr(l)]) : l \in AlertLists}

\* dict.get(key, default)
Get(fields, key, default) == IF key \in DOMAIN fields THEN fields[key] ELSE default

\* line 38: data.get('alerts', [])
AlertsOf(d) == Get(d.f, "alerts", JArr(<<>>))

\* line 40: not alerts
Falsy(v) == v.t = "null" \/ (v.t = "array" /\ v.items = <<>>)

\* line 54: status.upper()
str_upper(status) ==
    CASE status = "firing" -> "FIRING"
      [] status = "resolved" -> "RESOLVED"
      [] status = "unknown" -> "UNKNOWN"
      [] OTHER -> status

\* lines 45-61: the text of the message for one alert.
Message(alert) ==
    LET status == Get(alert.f, "status", "unknown")
        labels == IF "labels" \in DOMAIN alert.f THEN alert.f.labels.f ELSE <<>>
        annotations == IF "annotations" \in DOMAIN alert.f THEN alert.f.annotations.f ELSE <<>>
    IN  [emoji |-> IF status = "firing" THEN "red circle" ELSE "check mark",
         alert_name |-> Get(labels, "alertname", "Unknown Alert"),
         status |-> str_upper(status),
         summary |-> Get(annotations, "summary", "No summary provided"),
         description |-> Get(annotations, "description", "No description provided"),
         footer |-> IF status = "firing" THEN "Please check the system immediately!"
                    ELSE "Alert resolved. No further action needed."]

\* line 69 and lines 72-74: the answers of the handler.
SentAlerts(n) == [status |-> "ok", message |-> [text |-> "Sent {n} alerts to Telegram", n |-> n]]
NoAlerts == [status |-> "ok", message |-> [text |-> "No alerts in the payload", n |-> 0]]
Error(exc) == [status |-> "error", message |-> [text |-> exc, n |-> 0]]
\* line 35 is outside the try: the exception leaves the handler.
Raised(exc) == [status |-> "raised", message |-> [text |-> exc, n |-> 0]]

\* lines 35-42: the payload is read; the handler answers at once or enters
\* the loop.  Iterating an object gives its keys, and str has no get.
alert_handler ==
    /\ data = NoData
    /\ \E d \in Payloads :
          /\ data' = d
          /\ IF d.t = "notjson"
             THEN reply' = Raised("JSONDecodeError") /\ alert_no' = 0
             ELSE IF d.t # "object"
             THEN reply' = Error("AttributeError") /\ alert_no' = 0
             ELSE IF Falsy(AlertsOf(d))
             THEN reply' = NoAlerts /\ alert_no' = 0
             ELSE IF AlertsOf(d).t # "array"
             THEN reply' = Error("AttributeError") /\ alert_no' = 1
             ELSE reply' = NoReply /\ alert_no' = 1
    /\ UNCHANGED messages

\* A loop that goes on to the next alert when a send fails.
alert_send_goes_on ==
    /\ reply = NoReply
    /\ alert_no >= 1
    /\ LET alerts == AlertsOf(data).items
           alert == alerts[alert_no]
       IN  IF alert.t # "object"
           THEN /\ reply' = Error("AttributeError")
                /\ UNCHANGED <<alert_no, messages>>
           ELSE \E taken \in BOOLEAN :
                   /\ messages' = IF taken THEN Append(messages, Message(alert)) ELSE messages
                   /\ alert_no' = alert_no + 1
                   /\ reply' = IF alert_no = Len(alerts) THEN SentAlerts(Len(alerts)) ELSE NoReply
    /\ UNCHANGED data

\* lines 44-74: one iteration of the for loop, up to the end of its await;
\* after the last alert the handler answers.  An exception, of the handler
\* or of send_message, ends the loop with the error answer.
alert_send ==
    /\ reply = NoReply
    /\ alert_no >= 1
    /\ LET alerts == AlertsOf(data).items
           alert == alerts[alert_no]
       IN  IF alert.t # "object"
           THEN /\ reply' = Error("AttributeError")
                /\ UNCHANGED <<alert_no, messages>>
           ELSE \E taken \in BOOLEAN :
                   IF taken
                   THEN /\ messages' = Append(messages, Message(alert))
                        /\ alert_no' = alert_no + 1
                        /\ reply' = IF alert_no = Len(alerts) THEN SentAlerts(Len(alerts))
                                    ELSE NoReply
                   ELSE /\ reply' = Error("TelegramError")
                        /\ UNCHANGED <<alert_no, messages>>
    /\ UNCHANGED data

BotInit ==
    /\ cls = "ForumUser"
    /\ board_ids = <<>>
    /\ post_ids = <<>>
    /\ last = Started
    /\ req = NoReq
    /\ ures = NotCalled
    /\ vres = NotCalled
    /\ SimIdle
    /\ NoTest
    /\ NoAlert

BotNext ==
    \/ alert_handler /\ UNCHANGED <<uservars, simvars, anvars>>
    \/ alert_send /\ UNCHANGED <<uservars, simvars, anvars>>

SpecBot == BotInit /\ [][BotNext]_vars

(***************************************************************************)
(* Properties of alert_handler (checked under SpecBot).                    *)
(***************************************************************************)
\* The payload carries a non-empty list of alerts, each an object.
CarriesAlerts(d) ==
    /\ d.t = "object"
    /\ AlertsOf(d).t = "array"
    /\ AlertsOf(d).items # <<>>
    /\ \A k \in DOMAIN AlertsOf(d).items : AlertsOf(d).items[k].t = "object"

\* The messages for the first n alerts, in the order of the payload.
MessagesFor(items, n) == [k \in 1..n |-> Message(items[k])]

\* C30: for a payload of n >= 1 alerts the handler sends one message per
\* alert in payload order and answers ok with 'Sent n alerts'; when the k-th
\* send fails it answers error with the k-1 earlier messages sent and none
\* after; a payload with an empty or missing alerts list sends nothing and
\* is answered ok.
C30_AlertFanOut ==
    /\ [](CarriesAlerts(data)
              => LET items == AlertsOf(data).items
                 IN  /\ Len(messages) <= Len(items)
                     /\ messages = MessagesFor(items, Len(messages))
                     /\ reply.status \in {"none", "ok", "error"}
                     /\ reply.status = "none" => Len(messages) = alert_no - 1
                     /\ reply.status = "ok"
                           => (Len(messages) = Len(items) /\ reply = SentAlerts(Len(items)))
                     /\ reply.status = "error"
                           => (Len(messages) = alert_no - 1 /\ alert_no <= Len(items)))
    /\ []((data.t = "object" /\ Falsy(AlertsOf(data)))
              => (messages = <<>> /\ reply = NoAlerts))
    /\ [][reply # NoReply => messages' = messages]_vars

\* Of three alerts the first was sent, the second send failed, and the
\* handler answered with the error.
C30_Witness ==
    /\ CarriesAlerts(data)
    /\ Len(AlertsOf(data).items) = 3
    /\ reply.status = "error"
    /\ alert_no = 2
    /\ Len(messages) = 1

====
